---- MODULE Spec2Model ----
(***************************************************************************)
(* A model of the memory scanning engine of rekall/scan.py: the scanner    *)
(* checks (StringCheck, RegexCheck, MultiStringFinderCheck,                *)
(* SignatureScannerCheck), and the generator BaseScanner.scan with its     *)
(* subclasses MultiStringScanner, SignatureScanner and PointerScanner,     *)
(* ScannerGroup, and the IndexSet of efilter as its test uses it.          *)
(*                                                                         *)
(* Spec is one scan of one scanner; SpecReadError adds a failing read,     *)
(* SpecPointer scans with a PointerScanner, SpecRescan calls scan more     *)
(* than once, SpecGroup scans with a ScannerGroup, SpecConstruct starts    *)
(* before the constructor, SpecIndexSet is the IndexSet.                   *)
(*                                                                         *)
(* Bytes are the strings "A" and "B"; a byte string is a sequence of       *)
(* bytes.  Python indices are 0-based: data[i] of the source is            *)
(* data[i + 1] here.  SCAN_BLOCKSIZE and the overlap are scaled down so    *)
(* that a range of MemSize bytes is read in several chunks.                *)
(***************************************************************************)
EXTENDS Integers, Sequences, FiniteSets, TLC

\* Size of the physical memory, in bytes.
MemSize == 6

\* constants.SCAN_BLOCKSIZE, scaled down.
SCAN_BLOCKSIZE == 3

\* BaseScanner.overlap (self.overlap), scaled down.
self_overlap == 2

\* The value of "maxlen or 2**64": larger than every address of the model.
DefaultMaxLen == 2 ^ 20

Bytes == {"A", "B"}

Min(a, b) == IF a < b THEN a ELSE b

Max(a, b) == IF a > b THEN a ELSE b

-----------------------------------------------------------------------------
(* Python's bytes operations used by the checks.                           *)

\* data.startswith(needle, i)
StartsWith(data, needle, i) ==
    /\ i >= 0
    /\ i + Len(needle) <= Len(data)
    /\ \A k \in 1..Len(needle) : data[i + k] = needle[k]

\* data.find(needle, from): the least index >= from where needle occurs, or -1
Find(data, needle, from) ==
    LET found == {i \in Max(from, 0)..(Len(data) - Len(needle)) :
                     StartsWith(data, needle, i)}
    IN  IF found = {} THEN -1
        ELSE CHOOSE i \in found : \A j \in found : i <= j

\* data[-n:] for n > 0
LastBytes(data, n) ==
    SubSeq(data, Len(data) - Min(n, Len(data)) + 1, Len(data))

-----------------------------------------------------------------------------
(* addrspace.BufferAddressSpace: a byte buffer and the absolute offset of  *)
(* its first byte.                                                         *)

assign_buffer(data, base_offset) == [data |-> data, base_offset |-> base_offset]

get_buffer_offset(buffer_as, offset) == offset - buffer_as.base_offset

BufLen(buffer_as) == Len(buffer_as.data)

BufEnd(buffer_as) == buffer_as.base_offset + Len(buffer_as.data)

EmptyBuffer == assign_buffer(<<>>, 0)

-----------------------------------------------------------------------------
(* The value a check returns: False, or a true value (the needle for the   *)
(* checks that return the matching string).                                *)

NoMatch == [hit |-> FALSE, needle |-> <<>>]

Matched(needle) == [hit |-> TRUE, needle |-> needle]

\* A check instance: its class, its needles and its mutable attributes
\* (base_offset and hits of MultiStringFinderCheck, with -1 and <<>> for
\* None; current_needle of SignatureScannerCheck).
NewCheck(cls, needles) ==
    [cls |-> cls, needles |-> needles,
     base_offset |-> -1, hits |-> <<>>, current_needle |-> 0]

-----------------------------------------------------------------------------
(* acora: engine.findall(data) yields (needle, start) for every occurrence *)
(* of every needle, in the order in which the automaton reaches the end of *)
(* the occurrence; occurrences ending at the same byte come longest first. *)

RECURSIVE EndingAt(_, _, _, _)
EndingAt(data, needles, e, len) ==
    IF len = 0 THEN <<>>
    ELSE LET here == {n \in {needles[k] : k \in 1..Len(needles)} :
                         Len(n) = len /\ StartsWith(data, n, e - len)}
         IN  (IF here = {} THEN <<>>
              ELSE << <<CHOOSE n \in here : TRUE, e - len>> >>)
             \o EndingAt(data, needles, e, len - 1)

RECURSIVE FindAllFrom(_, _, _)
FindAllFrom(data, needles, e) ==
    IF e > Len(data) THEN <<>>
    ELSE EndingAt(data, needles, e, e)
         \o FindAllFrom(data, needles, e + 1)

findall(data, needles) == FindAllFrom(data, needles, 1)

\* Insert a hit into a list sorted by descending offset, behind the hits of
\* the same offset (sorted is stable, also with reverse=True).
RECURSIVE InsertDesc(_, _)
InsertDesc(sorted, h) ==
    IF sorted = <<>> THEN <<h>>
    ELSE IF Head(sorted)[2] >= h[2] THEN <<Head(sorted)>> \o InsertDesc(Tail(sorted), h)
    ELSE <<h>> \o sorted

RECURSIVE SortFrom(_, _, _)
SortFrom(found, sorted, i) ==
    IF i > Len(found) THEN sorted
    ELSE SortFrom(found, InsertDesc(sorted, found[i]), i + 1)

\* The hits as findall yields them, not sorted.
SortHits_unsorted(found) == found

\* sorted(found, key=lambda x: x[1], reverse=True)
SortHits(found) == SortFrom(found, <<>>, 1)

-----------------------------------------------------------------------------
(* MultiStringFinderCheck                                                  *)

\* The loop of MultiStringFinderCheck.check over self.hits.
RECURSIVE MultiCheckLoop(_, _)
MultiCheckLoop(c, data_offset) ==
    IF c.hits = <<>> THEN [c |-> c, val |-> NoMatch]
    ELSE LET top    == c.hits[Len(c.hits)]
             popped == [c EXCEPT !.hits = SubSeq(c.hits, 1, Len(c.hits) - 1)]
         IN  IF top[2] = data_offset THEN [c |-> popped, val |-> Matched(top[1])]
             ELSE IF top[2] < data_offset THEN MultiCheckLoop(popped, data_offset)
             ELSE [c |-> c, val |-> NoMatch]

MultiStringFinderCheck_check(c, buffer_as, offset) ==
    LET c1 == IF buffer_as.base_offset # c.base_offset
              THEN [c EXCEPT !.hits = SortHits(findall(buffer_as.data, c.needles)),
                             !.base_offset = buffer_as.base_offset]
              ELSE c
    IN  MultiCheckLoop(c1, offset - buffer_as.base_offset)

\* The loop of MultiStringFinderCheck.skip over self.hits.  The loop assigns
\* the offset of the hit it looks at to the local name `offset`, which is
\* also the parameter: the return after the loop reads whatever it holds.
RECURSIVE MultiSkipLoop(_, _, _, _)
MultiSkipLoop(c, buffer_as, data_offset, offset) ==
    IF c.hits = <<>> THEN [c |-> c, skip |-> BufEnd(buffer_as) - offset]
    ELSE LET top == c.hits[Len(c.hits)]
         IN  IF top[2] < data_offset
             THEN MultiSkipLoop([c EXCEPT !.hits = SubSeq(c.hits, 1, Len(c.hits) - 1)],
                                buffer_as, data_offset, top[2])
             ELSE [c |-> c, skip |-> top[2] - data_offset]

\* A skip that lands one byte behind the next hit.
MultiStringFinderCheck_skip_behind(c, buffer_as, offset) ==
    LET r == MultiSkipLoop(c, buffer_as, offset - buffer_as.base_offset, offset)
    IN  [c |-> r.c, skip |-> r.skip + 1]

MultiStringFinderCheck_skip(c, buffer_as, offset) ==
    MultiSkipLoop(c, buffer_as, offset - buffer_as.base_offset, offset)

-----------------------------------------------------------------------------
(* SignatureScannerCheck                                                   *)

\* A check that starts the signature over when the next part is not found.
SignatureScannerCheck_check_restart(c, buffer_as, offset) ==
    IF c.current_needle >= Len(c.needles) THEN [c |-> c, val |-> NoMatch]
    ELSE IF StartsWith(buffer_as.data, c.needles[c.current_needle + 1],
                       get_buffer_offset(buffer_as, offset))
         THEN [c |-> [c EXCEPT !.current_needle = @ + 1],
               val |-> Matched(c.needles[c.current_needle + 1])]
         ELSE [c |-> [c EXCEPT !.current_needle = 0], val |-> NoMatch]

SignatureScannerCheck_check(c, buffer_as, offset) ==
    IF c.current_needle >= Len(c.needles) THEN [c |-> c, val |-> NoMatch]
    ELSE LET buffer_offset == get_buffer_offset(buffer_as, offset)
             next_part     == c.needles[c.current_needle + 1]
         IN  IF StartsWith(buffer_as.data, next_part, buffer_offset)
             THEN [c |-> [c EXCEPT !.current_needle = @ + 1], val |-> Matched(next_part)]
             ELSE [c |-> c, val |-> NoMatch]

\* A skip that goes on searching for the last part once all parts are found.
SignatureScannerCheck_skip_search(c, buffer_as, offset) ==
    LET buffer_offset == get_buffer_offset(buffer_as, offset)
        last          == Min(c.current_needle + 1, Len(c.needles))
        dindex        == Find(buffer_as.data, c.needles[last], buffer_offset + 1)
    IN  IF dindex > -1 THEN [c |-> c, skip |-> dindex - buffer_offset]
        ELSE [c |-> c, skip |-> BufEnd(buffer_as) - offset]

SignatureScannerCheck_skip(c, buffer_as, offset) ==
    IF c.current_needle >= Len(c.needles)
    THEN [c |-> c, skip |-> BufEnd(buffer_as) - offset]
    ELSE LET buffer_offset == get_buffer_offset(buffer_as, offset)
             next_part     == c.needles[c.current_needle + 1]
             correction    == IF c.current_needle # 0
                              THEN Len(c.needles[c.current_needle])
                              ELSE 0
             dindex        == Find(buffer_as.data, next_part, buffer_offset + correction)
         IN  IF dindex > -1 THEN [c |-> c, skip |-> dindex - buffer_offset]
             ELSE [c |-> c, skip |-> BufEnd(buffer_as) - offset]

-----------------------------------------------------------------------------
(* StringCheck and RegexCheck                                              *)

StringCheck_check(c, buffer_as, offset) ==
    IF StartsWith(buffer_as.data, c.needles[1], get_buffer_offset(buffer_as, offset))
    THEN [c |-> c, val |-> Matched(c.needles[1])]
    ELSE [c |-> c, val |-> NoMatch]

StringCheck_skip(c, buffer_as, offset) ==
    LET buffer_offset == get_buffer_offset(buffer_as, offset)
        dindex        == Find(buffer_as.data, c.needles[1], buffer_offset + 1)
    IN  IF dindex > -1 THEN [c |-> c, skip |-> dindex - buffer_offset]
        ELSE [c |-> c, skip |-> BufEnd(buffer_as) - offset]

\* re.match(data, pos) of a regex that is an alternation of literals
\* (needles[1]|needles[2]|...): the leftmost alternative that matches at pos.
RegexMatch(alternatives, data, pos) ==
    LET ok == {k \in 1..Len(alternatives) : StartsWith(data, alternatives[k], pos)}
    IN  IF ok = {} THEN NoMatch
        ELSE Matched(alternatives[CHOOSE k \in ok : \A j \in ok : k <= j])

RegexCheck_check(c, buffer_as, offset) ==
    [c |-> c, val |-> RegexMatch(c.needles, buffer_as.data,
                                 get_buffer_offset(buffer_as, offset))]

\* A default skip of one byte.
ScannerCheck_skip_one(c, buffer_as, offset) == [c |-> c, skip |-> 1]

\* ScannerCheck.skip, inherited by RegexCheck
ScannerCheck_skip(c, buffer_as, offset) == [c |-> c, skip |-> 0]

-----------------------------------------------------------------------------
(* Dynamic dispatch on the class of the check.                             *)

check_check(c, buffer_as, offset) ==
    CASE c.cls = "StringCheck"            -> StringCheck_check(c, buffer_as, offset)
      [] c.cls = "RegexCheck"             -> RegexCheck_check(c, buffer_as, offset)
      [] c.cls = "MultiStringFinderCheck" -> MultiStringFinderCheck_check(c, buffer_as, offset)
      [] c.cls = "SignatureScannerCheck"  -> SignatureScannerCheck_check(c, buffer_as, offset)

check_skip(c, buffer_as, offset) ==
    CASE c.cls = "StringCheck"            -> StringCheck_skip(c, buffer_as, offset)
      [] c.cls = "RegexCheck"             -> ScannerCheck_skip(c, buffer_as, offset)
      [] c.cls = "MultiStringFinderCheck" -> MultiStringFinderCheck_skip(c, buffer_as, offset)
      [] c.cls = "SignatureScannerCheck"  -> SignatureScannerCheck_skip(c, buffer_as, offset)

-----------------------------------------------------------------------------
(* The scanners under test and the address spaces they scan.               *)

Check(cls, needles) == [cls |-> cls, needles |-> needles]

\* A scanner class with its class attribute `checks` (BaseScanner) or its
\* `needles` (MultiStringScanner, SignatureScanner: checks[1].needles).
Scanner(cls, checks) == [scanner |-> cls, checks |-> checks]

\* The scanner classes that use check_addr, skip and the lazily built
\* constraints of BaseScanner.
BaseScannerClasses == {"BaseScanner", "PointerScanner"}

\* profile.get_obj_size("address")
AddressSize == 2

\* The two byte values of the model: "A" is the byte 0, "B" the byte 1.
ByteOf(n) == IF n = 0 THEN "A" ELSE "B"

\* profile.address().write(address), read back as bytes: the address as
\* AddressSize bytes, least significant byte first.
EncodePointer(address) ==
    [k \in 1..AddressSize |-> ByteOf((address \div (256 ^ (k - 1))) % 256)]

\* PointerScanner.__init__: one needle per pointer, one MultiStringFinderCheck
PointerChecks(pointers) ==
    << Check("MultiStringFinderCheck",
             [i \in 1..Len(pointers) |-> EncodePointer(pointers[i])]) >>

PointerScanner(pointers) ==
    [scanner |-> "PointerScanner", checks |-> PointerChecks(pointers),
     pointers |-> pointers]

\* Pointer lists whose encodings use the two byte values of the model.
PointerConfigs ==
    { PointerScanner(<<1>>), PointerScanner(<<256, 257>>),
      PointerScanner(<<0, 257>>), PointerScanner(<<1, 256>>) }

\* A BaseScanner whose first check offers no skip and whose second check
\* keeps a list of hits.
MixedConfigs ==
    { Scanner("BaseScanner", << Check("RegexCheck", << <<"B">> >>),
                                Check("MultiStringFinderCheck", << <<"A">> >>) >>),
      Scanner("BaseScanner", << Check("RegexCheck", << <<"A", "B">> >>),
                                Check("MultiStringFinderCheck",
                                      << <<"A", "B">>, <<"A">> >>) >>) }

Configs ==
    { Scanner("BaseScanner", << Check("StringCheck", << <<"A", "B">> >>) >>),
      Scanner("BaseScanner", << Check("StringCheck", << <<"A", "B", "A">> >>) >>),
      Scanner("BaseScanner", << Check("MultiStringFinderCheck",
                                      << <<"A", "B", "A">>, <<"B">> >>) >>),
      Scanner("BaseScanner", << Check("StringCheck", << <<"A">> >>),
                                Check("MultiStringFinderCheck",
                                      << <<"A", "B">>, <<"A">> >>) >>),
      Scanner("BaseScanner", << Check("StringCheck", << <<"A">> >>),
                                Check("StringCheck", << <<"A", "B">> >>) >>),
      Scanner("BaseScanner", << Check("RegexCheck", << <<"A", "B">>, <<"B">> >>) >>),
      Scanner("BaseScanner", << Check("SignatureScannerCheck",
                                      << <<"A", "B">>, <<"B">> >>) >>),
      Scanner("MultiStringScanner", << Check("MultiStringFinderCheck",
                                             << <<"A", "B">>, <<"A">> >>) >>),
      Scanner("MultiStringScanner", << Check("MultiStringFinderCheck",
                                             << <<"A">>, <<"A", "B">> >>) >>),
      Scanner("SignatureScanner", << Check("SignatureScannerCheck",
                                           << <<"A", "A">>, <<"A", "A">> >>) >>) }

\* What get_address_ranges yields: runs (virt_start, phys_start, length),
\* ascending and non-overlapping.  One dense range; two ranges with an
\* unmapped gap; two virtually adjacent ranges that differ physically.
Layouts ==
    { << <<0, 0, MemSize>> >>,
      << <<0, 0, 3>>, <<4, 3, MemSize - 4>> >>,
      << <<0, MemSize - 2, 2>>, <<2, 0, MemSize - 2>> >> }

\* Python's None where a number is expected: the default of maxlen.
None == -1

\* The (offset, maxlen) arguments of scan: without maxlen, with a maxlen
\* that ends inside the memory, and with the maxlen 0.
ScanArgs ==
    { <<0, None>>, <<1, MemSize - 2>>, <<0, SCAN_BLOCKSIZE>>, <<MemSize - 2, None>>,
      <<MemSize - 2, 0>> }

-----------------------------------------------------------------------------
(* efilter.ext.indexset.IndexSet, a set of elements that are found by any  *)
(* of their indices, as test_indexset.py uses it.                          *)

\* How many elements there are to put into the set.
NumElements == 4

Elements == 1..NumElements

\* indexable.indices(element): like the FakeIndexable of the test, a name
\* and a number, and for every other element a third index.
indices(element) ==
    << <<"enum", element>>, <<"int", element>> >> \o
        (IF element % 2 = 0 THEN << <<"str", element>> >> ELSE <<>>)

IndexesOf(element) == {indices(element)[k] : k \in 1..Len(indices(element))}

Indices == UNION {IndexesOf(element) : element \in Elements}

\* What the dictionary has for an index without element.
NoElement == 0

\* IndexSet()
EmptyIndexSet == [index \in Indices |-> NoElement]

\* IndexSet.values: the elements, each once
IndexSet_values(d) == {d[index] : index \in Indices} \ {NoElement}

\* len(iset)
IndexSet_len(d) == Cardinality(IndexSet_values(d))

\* IndexSet.get_index(index)
IndexSet_get_index(d, index) == d[index]

\* element in iset
IndexSet_contains(d, element) == element \in IndexSet_values(d)

\* An add that files the element under its first index only.
IndexSet_add_first_index(d, element) ==
    [index \in Indices |-> IF index = indices(element)[1] THEN element ELSE d[index]]

\* IndexSet.add(element): the element is filed under each of its indices.
IndexSet_add(d, element) ==
    [index \in Indices |-> IF index \in IndexesOf(element) THEN element ELSE d[index]]

\* IndexSet.discard(element): its indices are dropped, if they are there.
IndexSet_discard(d, element) ==
    [index \in Indices |-> IF index \in IndexesOf(element) THEN NoElement ELSE d[index]]

\* A remove that takes an absent element in silence, like discard.
IndexSet_remove_silent(d, element) ==
    [dict |-> IndexSet_discard(d, element), raised |-> FALSE]

\* IndexSet.remove(element): KeyError for an element that is not in the set.
IndexSet_remove(d, element) ==
    IF IndexSet_contains(d, element)
    THEN [dict |-> IndexSet_discard(d, element), raised |-> FALSE]
    ELSE [dict |-> d, raised |-> TRUE]

\* No call on the IndexSet yet.
NoCall == [op |-> "none", element |-> NoElement, raised |-> FALSE,
           before |-> EmptyIndexSet]

VARIABLES
    cfg,               \* the scanner class and its checks / needles
    runs,              \* the runs of self.address_space
    mem,               \* the bytes of address_space.phys_base
    pc,                \* where the generator scan() stands
    constraints,       \* self.constraints (<<>> for None), or <<self.check>>
    offset,            \* scan's argument offset
    end,               \* offset + maxlen
    overlap,           \* the bytes carried over from the previous chunk
    last_reported_hit,
    chunk_end,
    chunk_offset,
    ri,                \* index into runs of the run the for loop is at
    start,
    buffer_as,
    scan_offset,
    output,            \* what scan has yielded so far
    chunks,            \* history: the chunks read so far
    checkvals,         \* history: what each check returned at the last check_addr
    skipvals,          \* history: what each skip returned at the last skip
    skip_at,           \* history: the offset of the last skip call, or -1
    part_offsets,      \* history: the offsets where a signature part was found
    scans,             \* history: how many times scan was called on the scanner
    given_maxlen,      \* history: the maxlen the last call of scan was given
    failed,            \* history: phys_base.read has raised
    abandoned,         \* history: an earlier scan was left at a yield
    group,             \* the ScannerGroup, if there is one, and the locals of its scan
    iset,              \* an efilter IndexSet: its index -> element dictionary
    icall,             \* history: the last call on iset, and iset before it
    vad                \* VADMapMixin.render: its input, locals and rows

vars == <<cfg, runs, mem, pc, constraints, offset, end, overlap,
          last_reported_hit, chunk_end, chunk_offset, ri, start, buffer_as,
          scan_offset, output, chunks, checkvals, skipvals, skip_at,
          part_offsets, scans, given_maxlen, failed, abandoned, group, iset, icall, vad>>

\* The variables that the steps of BaseScanner.scan leave alone.
others == <<given_maxlen, failed, abandoned, group, iset, icall, vad>>

\* No vadmap plugin is rendering.
NoRender == [pc |-> "none"]

\* No ScannerGroup: the scanner is used on its own.
NoGroup == [pc |-> "none"]

\* phys_base.read(phys_offset, length)
Read(phys_offset, length) == [i \in 1..length |-> mem[phys_offset + i - 1]]

NotCalled == [called |-> FALSE, hit |-> FALSE, needle |-> <<>>]

Called(val) == [called |-> TRUE, hit |-> val.hit, needle |-> val.needle]

-----------------------------------------------------------------------------
(* BaseScanner, MultiStringScanner, SignatureScanner                       *)

\* The names that ScannerCheck.classes knows.
CheckClasses ==
    {"MultiStringFinderCheck", "SignatureScannerCheck", "StringCheck", "RegexCheck"}

\* Checks whose construction accepts anything.
CheckRaises_never(chk) == FALSE

\* Constructing the check raises: KeyError for a name that is not in
\* ScannerCheck.classes, RuntimeError for "not needles".
CheckRaises(chk) ==
    \/ chk.cls \notin CheckClasses
    \/ /\ chk.cls \in {"MultiStringFinderCheck", "SignatureScannerCheck"}
       /\ chk.needles = <<>>

\* BaseScanner.build_constraints raises at the first check that does.
BuildRaises(checks) == \E k \in 1..Len(checks) : CheckRaises(checks[k])

\* BaseScanner.build_constraints: one check instance per (class_name, args)
build_constraints(checks) ==
    [i \in 1..Len(checks) |-> NewCheck(checks[i].cls, checks[i].needles)]

\* A check_addr that asks every constraint, also behind one that did not
\* match.
RECURSIVE CheckAddrFrom_all(_, _, _, _, _)
CheckAddrFrom_all(cons, vals, i, buf, off) ==
    IF i > Len(cons)
    THEN [constraints |-> cons, vals |-> vals,
          hit |-> \A k \in 1..Len(vals) : vals[k].hit, val |-> <<>>]
    ELSE LET r == check_check(cons[i], buf, off)
         IN  CheckAddrFrom_all([cons EXCEPT ![i] = r.c],
                               [vals EXCEPT ![i] = Called(r.val)], i + 1, buf, off)

\* BaseScanner.check_addr: the loop over self.constraints from index i on.
RECURSIVE CheckAddrFrom(_, _, _, _, _)
CheckAddrFrom(cons, vals, i, buf, off) ==
    IF i > Len(cons) THEN [constraints |-> cons, vals |-> vals, hit |-> TRUE, val |-> <<>>]
    ELSE LET r == check_check(cons[i], buf, off)
             cons1 == [cons EXCEPT ![i] = r.c]
             vals1 == [vals EXCEPT ![i] = Called(r.val)]
         IN  IF ~r.val.hit
             THEN [constraints |-> cons1, vals |-> vals1, hit |-> FALSE, val |-> <<>>]
             ELSE CheckAddrFrom(cons1, vals1, i + 1, buf, off)

BaseScanner_check_addr(cons, buf, off) ==
    CheckAddrFrom(cons, [i \in 1..Len(cons) |-> NotCalled], 1, buf, off)

\* MultiStringScanner.check_addr: (offset, val) if self.check matches
MultiStringScanner_check_addr(cons, buf, off) ==
    LET r == check_check(cons[1], buf, off)
    IN  [constraints |-> <<r.c>>, vals |-> <<Called(r.val)>>,
         hit |-> r.val.hit, val |-> r.val.needle]

\* A loop over the skippers that keeps the skip of the last one.
RECURSIVE SkipFrom_last(_, _, _, _, _, _)
SkipFrom_last(cons, vals, skip, i, buf, off) ==
    IF i > Len(cons) THEN [constraints |-> cons, vals |-> vals, skip |-> skip]
    ELSE LET r == check_skip(cons[i], buf, off)
         IN  SkipFrom_last([cons EXCEPT ![i] = r.c], [vals EXCEPT ![i] = r.skip],
                           Max(1, r.skip), i + 1, buf, off)

\* BaseScanner.skip: the loop over self.skippers from index i on.
RECURSIVE SkipFrom(_, _, _, _, _, _)
SkipFrom(cons, vals, skip, i, buf, off) ==
    IF i > Len(cons) THEN [constraints |-> cons, vals |-> vals, skip |-> skip]
    ELSE LET r == check_skip(cons[i], buf, off)
         IN  SkipFrom([cons EXCEPT ![i] = r.c], [vals EXCEPT ![i] = r.skip],
                      Max(skip, r.skip), i + 1, buf, off)

BaseScanner_skip(cons, buf, off) ==
    SkipFrom(cons, [i \in 1..Len(cons) |-> 0], 1, 1, buf, off)

\* MultiStringScanner.skip
MultiStringScanner_skip(cons, buf, off) ==
    LET r == check_skip(cons[1], buf, off)
    IN  [constraints |-> <<r.c>>, vals |-> <<r.skip>>, skip |-> r.skip]

check_addr(cons, buf, off) ==
    IF cfg.scanner \in BaseScannerClasses THEN BaseScanner_check_addr(cons, buf, off)
    ELSE MultiStringScanner_check_addr(cons, buf, off)

skip(cons, buf, off) ==
    IF cfg.scanner \in BaseScannerClasses THEN BaseScanner_skip(cons, buf, off)
    ELSE MultiStringScanner_skip(cons, buf, off)

\* A scan that carries the overlap over every boundary, gaps included.
KeepOverlap_always(ov, chunk_off, chunk_e) == ov

\* "if chunk_offset != chunk_end: overlap = b''"
KeepOverlap(ov, chunk_off, chunk_e) == IF chunk_off # chunk_e THEN <<>> ELSE ov

\* A chunk that is all that is left of the range or of the scan.
ChunkSize_rest(range_end, chunk_off, scan_end) ==
    Min(range_end - chunk_off, scan_end - chunk_off)

\* chunk_size: SCAN_BLOCKSIZE, or what is left of the range or of the scan
ChunkSize(range_end, chunk_off, scan_end) ==
    Min(Min(SCAN_BLOCKSIZE, range_end - chunk_off), scan_end - chunk_off)

\* A scan that carries no overlap from chunk to chunk.
NextOverlap_none(ov, data) == <<>>

\* A scan that keeps the first bytes of the buffer instead of the last.
NextOverlap_head(ov, data) ==
    IF self_overlap > 0 THEN SubSeq(data, 1, Min(self_overlap, Len(data))) ELSE ov

\* "if self.overlap > 0: overlap = buffer_as.data[-self.overlap:]"
NextOverlap(ov, data) == IF self_overlap > 0 THEN LastBytes(data, self_overlap) ELSE ov

\* A scan that keeps last_reported_hit from the call before.
LastReportedHitAtStart_kept(previous) == previous

\* "last_reported_hit = -1", whatever an earlier call left behind
LastReportedHitAtStart(previous) == -1

\* A scan without the guard on last_reported_hit.
ShouldYield_noguard(hit, scan_off, last_hit) == hit

\* "if res is not None and scan_offset > last_reported_hit"
ShouldYield(hit, scan_off, last_hit) == hit /\ scan_off > last_hit

\* A cursor that goes back to the start of the buffer when no skipper offers
\* anything.
Advance_rewind(scan_off, buf, skip_value) ==
    IF skip_value = 0 THEN buf.base_offset
    ELSE scan_off + Min(Len(buf.data), skip_value)

\* A cursor that stays where it is.
Advance_stuck(scan_off, buf, skip_value) == scan_off

\* "scan_offset += min(len(buffer_as), self.skip(buffer_as, scan_offset))"
Advance(scan_off, buf, skip_value) == scan_off + Min(BufLen(buf), skip_value)

-----------------------------------------------------------------------------
(* The state after the scanner is constructed.                             *)

\* Nothing has been scanned yet.
Fresh ==
    /\ offset = 0
    /\ end = 0
    /\ overlap = <<>>
    /\ last_reported_hit = -1
    /\ chunk_end = 0
    /\ chunk_offset = 0
    /\ ri = 1
    /\ start = 0
    /\ buffer_as = EmptyBuffer
    /\ scan_offset = 0
    /\ output = <<>>
    /\ chunks = <<>>
    /\ checkvals = <<>>
    /\ skipvals = <<>>
    /\ skip_at = -1
    /\ part_offsets = <<>>
    /\ scans = 0
    /\ given_maxlen = None
    /\ failed = FALSE
    /\ abandoned = FALSE
    /\ iset = EmptyIndexSet
    /\ icall = NoCall
    /\ vad = NoRender

\* self.constraints after __init__: None (<<>>) for BaseScanner, self.check
\* for MultiStringScanner and SignatureScanner.
InitialConstraints(c) ==
    IF c.scanner \in BaseScannerClasses THEN <<>>
    ELSE <<NewCheck(c.checks[1].cls, c.checks[1].needles)>>

Constructed(configs) ==
    /\ cfg \in configs
    /\ runs \in Layouts
    /\ mem \in [0..(MemSize - 1) -> Bytes]
    /\ pc = "idle"
    /\ constraints = InitialConstraints(cfg)
    /\ group = NoGroup
    /\ Fresh

Init == Constructed(Configs)

\* A scan that builds its checks anew every time.
NeedsBuild_always(cons) == TRUE

\* "if self.constraints is None"
NeedsBuild(cons) == cons = <<>>

\* "maxlen = maxlen or 2**64": None and 0 are both false.
MaxlenOrDefault(maxlen) ==
    IF maxlen = None \/ maxlen = 0 THEN DefaultMaxLen ELSE maxlen

\* scan(offset, maxlen) is called with the arguments o and maxlen: the code
\* before the loop over the runs.
StartScanWith(o, maxlen) ==
    /\ pc = "idle"
    /\ given_maxlen' = maxlen
    /\ offset' = o
    /\ end' = o + MaxlenOrDefault(maxlen)
    /\ overlap' = <<>>
    /\ last_reported_hit' = LastReportedHitAtStart(last_reported_hit)
    /\ IF cfg.scanner \in BaseScannerClasses /\ NeedsBuild(constraints)
       THEN IF BuildRaises(cfg.checks)
            THEN /\ pc' = "raised"
                 /\ UNCHANGED constraints
            ELSE /\ pc' = "range"
                 /\ constraints' = build_constraints(cfg.checks)
       ELSE /\ pc' = "range"
            /\ UNCHANGED constraints
    /\ chunk_end' = 0
    /\ ri' = 1
    /\ scans' = scans + 1
    /\ UNCHANGED <<failed, abandoned, group, iset, icall, vad,
                   cfg, runs, mem, chunk_offset, start, buffer_as, scan_offset,
                   output, chunks, checkvals, skipvals, skip_at, part_offsets>>

StartScan == \E args \in ScanArgs : StartScanWith(args[1], args[2])

\* One step of "for run in get_address_ranges(...)": up to the while loop.
NextRange ==
    /\ pc = "range"
    /\ ri <= Len(runs)
    /\ LET range_start == runs[ri][1]
           range_end   == runs[ri][1] + runs[ri][3]
       IN  IF range_end < offset
           THEN /\ ri' = ri + 1
                /\ pc' = "range"
                /\ UNCHANGED <<start, chunk_offset, buffer_as>>
           ELSE IF range_start > end
           THEN /\ pc' = "done"
                /\ UNCHANGED <<ri, start, chunk_offset, buffer_as>>
           ELSE /\ start' = Max(range_start, offset)
                /\ chunk_offset' = Max(range_start, offset)
                /\ buffer_as' = EmptyBuffer
                /\ pc' = "chunk"
                /\ UNCHANGED ri
    /\ UNCHANGED <<others, scans, cfg, runs, mem, constraints, offset, end, overlap,
                   last_reported_hit, chunk_end, scan_offset, output, chunks,
                   checkvals, skipvals, skip_at, part_offsets>>

\* The runs are exhausted: the generator returns.
Finish ==
    /\ pc = "range"
    /\ ri > Len(runs)
    /\ pc' = "done"
    /\ UNCHANGED <<others, scans, cfg, runs, mem, constraints, offset, end, overlap,
                   last_reported_hit, chunk_end, chunk_offset, ri, start,
                   buffer_as, scan_offset, output, chunks, checkvals, skipvals,
                   skip_at, part_offsets>>

\* One pass of the while loop over the chunks, up to the inner loop: the
\* next chunk is read behind the overlap and becomes the buffer.
ReadChunk ==
    /\ pc = "chunk"
    /\ chunk_offset < end
    /\ chunk_offset < runs[ri][1] + runs[ri][3]
    /\ LET range_start == runs[ri][1]
           phys_start  == runs[ri][2]
           range_end   == runs[ri][1] + runs[ri][3]
           ov          == KeepOverlap(overlap, chunk_offset, chunk_end)
           chunk_off   == Max(start, chunk_offset)
           chunk_size  == ChunkSize(range_end, chunk_off, end)
           phys_chunk_offset == phys_start + (chunk_off - range_start)
           buf         == assign_buffer(ov \o Read(phys_chunk_offset, chunk_size),
                                        chunk_off - Len(ov))
       IN  /\ chunk_offset' = chunk_off
           /\ chunk_end' = chunk_off + chunk_size
           /\ buffer_as' = buf
           /\ overlap' = NextOverlap(ov, buf.data)
           /\ scan_offset' = buf.base_offset
           /\ chunks' = Append(chunks, [run |-> ri, offset |-> chunk_off,
                                        end |-> chunk_off + chunk_size,
                                        base_offset |-> buf.base_offset,
                                        data |-> buf.data])
    /\ skip_at' = -1
    /\ pc' = "check"
    /\ UNCHANGED <<others, scans, cfg, runs, mem, constraints, offset, end, last_reported_hit,
                   ri, start, output, checkvals, skipvals, part_offsets>>

\* The while loop over the chunks ends: on to the next run.
EndRange ==
    /\ pc = "chunk"
    /\ ~(chunk_offset < end /\ chunk_offset < runs[ri][1] + runs[ri][3])
    /\ ri' = ri + 1
    /\ pc' = "range"
    /\ UNCHANGED <<others, scans, cfg, runs, mem, constraints, offset, end, overlap,
                   last_reported_hit, chunk_end, chunk_offset, start, buffer_as,
                   scan_offset, output, chunks, checkvals, skipvals, skip_at,
                   part_offsets>>

\* Inner loop, first half: check_addr at scan_offset, and the yield.
CheckAddr ==
    /\ pc = "check"
    /\ scan_offset < BufEnd(buffer_as)
    /\ LET r == check_addr(constraints, buffer_as, scan_offset)
           found == \E i \in 1..Len(constraints) :
                       r.constraints[i].current_needle > constraints[i].current_needle
       IN  /\ constraints' = r.constraints
           /\ checkvals' = r.vals
           /\ part_offsets' = IF found THEN Append(part_offsets, scan_offset)
                              ELSE part_offsets
           /\ IF ShouldYield(r.hit, scan_offset, last_reported_hit)
              THEN /\ last_reported_hit' = scan_offset
                   /\ output' = Append(output, [offset |-> scan_offset,
                                                val |-> r.val,
                                                matched |-> r.vals])
              ELSE UNCHANGED <<last_reported_hit, output>>
    /\ pc' = "skip"
    /\ UNCHANGED <<others, scans, cfg, runs, mem, offset, end, overlap, chunk_end, chunk_offset,
                   ri, start, buffer_as, scan_offset, chunks, skipvals, skip_at>>

\* Inner loop, second half: the cursor advances by what the skippers allow.
Skip ==
    /\ pc = "skip"
    /\ LET r == skip(constraints, buffer_as, scan_offset)
       IN  /\ constraints' = r.constraints
           /\ skipvals' = r.vals
           /\ scan_offset' = Advance(scan_offset, buffer_as, r.skip)
    /\ skip_at' = scan_offset
    /\ pc' = "check"
    /\ UNCHANGED <<others, scans, cfg, runs, mem, offset, end, overlap, last_reported_hit,
                   chunk_end, chunk_offset, ri, start, buffer_as, output, chunks,
                   checkvals, part_offsets>>

\* The inner loop ends: "chunk_offset = scan_offset".
EndChunk ==
    /\ pc = "check"
    /\ scan_offset >= BufEnd(buffer_as)
    /\ chunk_offset' = scan_offset
    /\ pc' = "chunk"
    /\ UNCHANGED <<others, scans, cfg, runs, mem, constraints, offset, end, overlap,
                   last_reported_hit, chunk_end, ri, start, buffer_as,
                   scan_offset, output, chunks, checkvals, skipvals, skip_at,
                   part_offsets>>

\* The steps of a scan that was started.
ScanSteps ==
    \/ NextRange
    \/ Finish
    \/ ReadChunk
    \/ EndRange
    \/ CheckAddr
    \/ Skip
    \/ EndChunk

Next ==
    \/ StartScan
    \/ ScanSteps

Spec == Init /\ [][Next]_vars

\* Where the generator is: the place in the code and the range it is at.
\* Every step of scan changes it.
position == <<pc, ri>>

\* The places of a generator that was not exhausted and did not raise.
Running == {"idle", "range", "chunk", "check", "skip"}

\* The consumer asks for the next element and the generator runs on: from a
\* place in Running the code of scan always has a next step, and whichever
\* step it is, it leaves the generator at another position.
Pull ==
    /\ pc \in Running
    /\ pc' \in Running \cup {"done", "raised"}
    /\ ri' \in 1..(Len(runs) + 1)

\* The consumer keeps pulling: while the generator is not exhausted, it is
\* asked to go on.
SpecLive == Init /\ [][Next]_vars /\ WF_position(Pull)

-----------------------------------------------------------------------------
(* A read of the physical address space that fails.                        *)

\* A scan that catches the error of the read and carries on where it was.
ReadRaises_caught(at) == at

\* phys_base.read raises inside scan: nothing there catches it, so the
\* generator ends with the error.
ReadRaises(at) == "error"

\* The while loop over the chunks, when the read of the next chunk raises.
ReadFails ==
    /\ pc = "chunk"
    /\ chunk_offset < end
    /\ chunk_offset < runs[ri][1] + runs[ri][3]
    /\ failed' = TRUE
    /\ pc' = ReadRaises(pc)
    /\ UNCHANGED <<abandoned, group, iset, icall, vad, scans, given_maxlen, cfg, runs, mem,
                   constraints, offset,
                   end, overlap, last_reported_hit, chunk_end, chunk_offset, ri, start,
                   buffer_as, scan_offset, output, chunks, checkvals, skipvals,
                   skip_at, part_offsets>>

NextReadError ==
    \/ Next
    \/ ReadFails

SpecReadError == Init /\ [][NextReadError]_vars

-----------------------------------------------------------------------------
(* PointerScanner over memory that holds encoded pointers.                 *)

SpecPointer == Constructed(PointerConfigs) /\ [][Next]_vars

-----------------------------------------------------------------------------
(* A RegexCheck in front of a MultiStringFinderCheck.                      *)

SpecMixed == Constructed(MixedConfigs) /\ [][Next]_vars

-----------------------------------------------------------------------------
(* A scanner instance that is scanned with more than once.                 *)

\* How many times scan is called on one scanner.
MaxScans == 2

\* The scanners of Configs whose checks keep no state.
StatelessConfigs ==
    {c \in Configs :
        /\ c.scanner = "BaseScanner"
        /\ \A k \in 1..Len(c.checks) : c.checks[k].cls \in {"StringCheck", "RegexCheck"}}

\* The caller is done with the generator, which has finished or stands at
\* a yield, and will call scan again: the frame of the generator is gone,
\* the scanner keeps self.constraints.  (The locals that StartScan assigns
\* are left for it to assign.)
ScanAgain ==
    /\ scans < MaxScans
    /\ \/ pc = "done"
       \/ /\ pc = "skip"
          /\ output # <<>>
          /\ output[Len(output)].offset = scan_offset
    /\ abandoned' = (abandoned \/ pc # "done")
    /\ pc' = "idle"
    /\ chunk_offset' = 0
    /\ start' = 0
    /\ buffer_as' = EmptyBuffer
    /\ scan_offset' = 0
    /\ output' = <<>>
    /\ chunks' = <<>>
    /\ checkvals' = <<>>
    /\ skipvals' = <<>>
    /\ skip_at' = -1
    /\ part_offsets' = <<>>
    /\ UNCHANGED <<failed, group, iset, icall, vad, scans, given_maxlen, cfg, runs, mem,
                   constraints, offset,
                   end, overlap, last_reported_hit, chunk_end, ri>>

NextRescan ==
    \/ Next
    \/ ScanAgain

SpecRescan == Constructed(StatelessConfigs) /\ [][NextRescan]_vars

\* The BaseScanners of Configs with a check that keeps state.
StatefulConfigs ==
    {c \in Configs :
        /\ c.scanner = "BaseScanner"
        /\ \E k \in 1..Len(c.checks) :
               c.checks[k].cls \in {"MultiStringFinderCheck", "SignatureScannerCheck"}}

\* A scanner with stateful checks that is scanned with more than once.
SpecReuse == Constructed(StatefulConfigs) /\ [][NextRescan]_vars

-----------------------------------------------------------------------------
(* ScannerGroup: several scanners over the same address space, window by   *)
(* window.                                                                 *)

\* self.scanners, in the order the dict hands them out; the name of a
\* scanner is its place in that order.
GroupConfigs ==
    { << Scanner("BaseScanner", << Check("StringCheck", << <<"A", "B">> >>) >>),
         Scanner("BaseScanner", << Check("RegexCheck", << <<"A", "B">>, <<"B">> >>) >>) >>,
      << Scanner("BaseScanner", << Check("StringCheck", << <<"A">> >>),
                                   Check("StringCheck", << <<"A", "B">> >>) >>) >>,
      << Scanner("MultiStringScanner", << Check("MultiStringFinderCheck",
                                                << <<"A", "B">>, <<"A">> >>) >>),
         Scanner("BaseScanner", << Check("StringCheck", << <<"A", "B", "A">> >>) >>) >> }

\* The (offset, maxlen) arguments of ScannerGroup.scan.
GroupArgs ==
    { <<0, MemSize>>, <<1, SCAN_BLOCKSIZE + 1>>, <<0, SCAN_BLOCKSIZE>>,
      <<MemSize - 2, 0>> }

\* profile.get_constant("MaxPointer"): the highest address of the profile.
MaxPointer == MemSize + 2

\* "maxlen or self.profile.get_constant('MaxPointer')"
MaxlenOrMaxPointer(maxlen) ==
    IF maxlen = None \/ maxlen = 0 THEN MaxPointer ELSE maxlen

\* ScannerGroup.__init__
NewGroup(scanners) ==
    [pc |-> "idle", scanners |-> scanners,
     constraints |-> [i \in 1..Len(scanners) |-> InitialConstraints(scanners[i])],
     start |-> 0, maxlen |-> 0, offset |-> 0, available_length |-> 0,
     to_read |-> 0, name |-> 0, output |-> <<>>]

InitGroup ==
    /\ group \in {NewGroup(scanners) : scanners \in GroupConfigs}
    /\ cfg = group.scanners[1]
    /\ runs \in Layouts
    /\ mem \in [0..(MemSize - 1) -> Bytes]
    /\ pc = "idle"
    /\ constraints = <<>>
    /\ Fresh

\* The variables of the scanner that the group is scanning with.
scanvars == <<cfg, runs, mem, pc, constraints, offset, end, overlap,
              last_reported_hit, chunk_end, chunk_offset, ri, start, buffer_as,
              scan_offset, output, chunks, checkvals, skipvals, skip_at,
              part_offsets, scans, given_maxlen, failed, abandoned>>

\* ScannerGroup.scan(offset, maxlen) is called with the arguments o and
\* maxlen.
GroupScanWith(o, maxlen) ==
    /\ group.pc = "idle"
    /\ group' = [group EXCEPT !.pc = "window",
                              !.start = o, !.maxlen = maxlen,
                              !.offset = o,
                              !.available_length = MaxlenOrMaxPointer(maxlen)]
    /\ UNCHANGED <<scanvars, iset, icall, vad>>

GroupScan == \E args \in GroupArgs : GroupScanWith(args[1], args[2])

\* "to_read = min(constants.SCAN_BLOCKSIZE + self.overlap, available_length)"
ToRead(available_length) == Min(SCAN_BLOCKSIZE + self_overlap, available_length)

\* "while available_length > 0": the next window.
GroupWindow ==
    /\ group.pc = "window"
    /\ group.available_length > 0
    /\ group' = [group EXCEPT !.pc = "scanner",
                              !.to_read = ToRead(group.available_length),
                              !.name = 1]
    /\ UNCHANGED <<scanvars, iset, icall, vad>>

\* The while loop ends.
GroupFinish ==
    /\ group.pc = "window"
    /\ group.available_length <= 0
    /\ group' = [group EXCEPT !.pc = "done"]
    /\ UNCHANGED <<scanvars, iset, icall, vad>>

\* "for name, scanner in self.scanners.items()": the next scanner, with the
\* constraints it has kept and a new generator.
GroupEnter ==
    /\ group.pc = "scanner"
    /\ group.name <= Len(group.scanners)
    /\ group' = [group EXCEPT !.pc = "calling"]
    /\ cfg' = group.scanners[group.name]
    /\ constraints' = group.constraints[group.name]
    /\ pc' = "idle"
    /\ chunk_offset' = 0
    /\ start' = 0
    /\ buffer_as' = EmptyBuffer
    /\ scan_offset' = 0
    /\ output' = <<>>
    /\ chunks' = <<>>
    /\ checkvals' = <<>>
    /\ skipvals' = <<>>
    /\ skip_at' = -1
    /\ part_offsets' = <<>>
    /\ UNCHANGED <<failed, abandoned, iset, icall, vad, scans, given_maxlen, runs, mem, offset, end,
                   overlap, last_reported_hit, chunk_end, ri>>

\* "scanner.scan(offset=offset, maxlen=to_read)"
GroupStartScan ==
    /\ group.pc = "calling"
    /\ StartScanWith(group.offset, group.to_read)

\* The scanner's generator is exhausted: its hits were yielded as
\* (name, hit), in its order.
GroupCollect ==
    /\ group.pc = "calling"
    /\ pc = "done"
    /\ group' = [group EXCEPT
                    !.pc = "scanner",
                    !.output = @ \o [i \in 1..Len(output) |->
                                        [name |-> group.name,
                                         offset |-> output[i].offset,
                                         window |-> (group.offset - group.start)
                                                        \div SCAN_BLOCKSIZE]],
                    !.constraints[group.name] = constraints,
                    !.name = @ + 1]
    /\ UNCHANGED <<scanvars, iset, icall, vad>>

\* "offset += SCAN_BLOCKSIZE; available_length -= SCAN_BLOCKSIZE"
GroupAdvance ==
    /\ group.pc = "scanner"
    /\ group.name > Len(group.scanners)
    /\ group' = [group EXCEPT
                    !.pc = "window",
                    !.offset = @ + SCAN_BLOCKSIZE,
                    !.available_length = @ - SCAN_BLOCKSIZE]
    /\ UNCHANGED <<scanvars, iset, icall, vad>>

NextGroup ==
    \/ GroupScan
    \/ GroupWindow
    \/ GroupFinish
    \/ GroupEnter
    \/ GroupStartScan
    \/ ScanSteps
    \/ GroupCollect
    \/ GroupAdvance

SpecGroup == InitGroup /\ [][NextGroup]_vars

-----------------------------------------------------------------------------
(* DiscontigScannerGroup: a ScannerGroup that is run over each address     *)
(* range of a virtual address space.                                       *)

\* address_space.get_address_ranges(start, end): the runs of the address
\* space from the i-th on, clipped to [start, end).
RECURSIVE ClippedFrom(_, _, _)
ClippedFrom(i, range_start, range_end) ==
    IF i > Len(runs) THEN <<>>
    ELSE LET from == Max(runs[i][1], range_start)
             to   == Min(runs[i][1] + runs[i][3], range_end)
         IN  (IF from < to
              THEN << <<from, runs[i][2] + (from - runs[i][1]), to - from>> >>
              ELSE <<>>)
             \o ClippedFrom(i + 1, range_start, range_end)

get_address_ranges(range_start, range_end) == ClippedFrom(1, range_start, range_end)

\* The (offset, maxlen) arguments of DiscontigScannerGroup.scan.
DiscontigArgs ==
    { <<0, None>>, <<1, MemSize - 2>>, <<2, SCAN_BLOCKSIZE>>, <<MemSize - 2, 0>> }

\* DiscontigScannerGroup.__init__ is ScannerGroup.__init__; outer holds the
\* locals of DiscontigScannerGroup.scan and what it has yielded.
NewDiscontigGroup(scanners) ==
    [pc |-> "idle", scanners |-> scanners,
     constraints |-> [i \in 1..Len(scanners) |-> InitialConstraints(scanners[i])],
     start |-> 0, maxlen |-> 0, offset |-> 0, available_length |-> 0,
     to_read |-> 0, name |-> 0, output |-> <<>>,
     outer |-> [pc |-> "idle", offset |-> 0, maxlen |-> 0, ranges |-> <<>>,
                ri |-> 1, output |-> <<>>]]

InitDiscontig ==
    /\ group \in {NewDiscontigGroup(scanners) : scanners \in GroupConfigs}
    /\ cfg = group.scanners[1]
    /\ runs \in Layouts
    /\ mem \in [0..(MemSize - 1) -> Bytes]
    /\ pc = "idle"
    /\ constraints = <<>>
    /\ Fresh

\* DiscontigScannerGroup.scan(offset, maxlen) is called: the ranges are
\* asked for.
DiscontigScan ==
    /\ group.outer.pc = "idle"
    /\ \E args \in DiscontigArgs :
          group' = [group EXCEPT
                       !.outer.pc = "range",
                       !.outer.offset = args[1],
                       !.outer.maxlen = args[2],
                       !.outer.ranges = get_address_ranges(
                                            args[1],
                                            args[1] + MaxlenOrMaxPointer(args[2])),
                       !.outer.ri = 1]
    /\ UNCHANGED <<scanvars, iset, icall, vad>>

\* "super(DiscontigScannerGroup, self).scan(start, maxlen=length)" for the
\* next range.
DiscontigCall ==
    /\ group.outer.pc = "range"
    /\ group.outer.ri <= Len(group.outer.ranges)
    /\ GroupScanWith(group.outer.ranges[group.outer.ri][1],
                     group.outer.ranges[group.outer.ri][3])

\* The generator of ScannerGroup.scan is exhausted: what it yielded was
\* yielded on, in its order.
DiscontigCollect ==
    /\ group.outer.pc = "range"
    /\ group.pc = "done"
    /\ group' = [group EXCEPT
                    !.pc = "idle",
                    !.output = <<>>,
                    !.outer.output = @ \o [i \in 1..Len(group.output) |->
                                              [range |-> group.outer.ri,
                                               name |-> group.output[i].name,
                                               offset |-> group.output[i].offset,
                                               window |-> group.output[i].window]],
                    !.outer.ri = @ + 1]
    /\ UNCHANGED <<scanvars, iset, icall, vad>>

\* The ranges are exhausted.
DiscontigFinish ==
    /\ group.outer.pc = "range"
    /\ group.outer.ri > Len(group.outer.ranges)
    /\ group.pc = "idle"
    /\ group' = [group EXCEPT !.outer.pc = "done"]
    /\ UNCHANGED <<scanvars, iset, icall, vad>>

NextDiscontig ==
    \/ DiscontigScan
    \/ DiscontigCall
    \/ GroupWindow
    \/ GroupFinish
    \/ GroupEnter
    \/ GroupStartScan
    \/ ScanSteps
    \/ GroupCollect
    \/ GroupAdvance
    \/ DiscontigCollect
    \/ DiscontigFinish

SpecDiscontig == InitDiscontig /\ [][NextDiscontig]_vars

-----------------------------------------------------------------------------
(* An IndexSet under any sequence of add, remove, discard and pop.         *)

InitIndexSet ==
    /\ cfg = Scanner("BaseScanner", << Check("StringCheck", << <<"A", "B">> >>) >>)
    /\ runs = << <<0, 0, MemSize>> >>
    /\ mem = [a \in 0..(MemSize - 1) |-> "A"]
    /\ pc = "idle"
    /\ constraints = <<>>
    /\ group = NoGroup
    /\ Fresh

\* iset.add(element)
IndexSetAdd ==
    /\ \E element \in Elements :
          /\ iset' = IndexSet_add(iset, element)
          /\ icall' = [op |-> "add", element |-> element, raised |-> FALSE,
                       before |-> iset]
    /\ UNCHANGED <<scanvars, group, vad>>

\* iset.remove(element)
IndexSetRemove ==
    /\ \E element \in Elements :
          /\ iset' = IndexSet_remove(iset, element).dict
          /\ icall' = [op |-> "remove", element |-> element,
                       raised |-> IndexSet_remove(iset, element).raised,
                       before |-> iset]
    /\ UNCHANGED <<scanvars, group, vad>>

\* iset.discard(element)
IndexSetDiscard ==
    /\ \E element \in Elements :
          /\ iset' = IndexSet_discard(iset, element)
          /\ icall' = [op |-> "discard", element |-> element, raised |-> FALSE,
                       before |-> iset]
    /\ UNCHANGED <<scanvars, group, vad>>

\* iset.pop() on a set that is not empty: some element leaves the set.
IndexSetPop ==
    /\ \E element \in IndexSet_values(iset) :
          /\ iset' = IndexSet_remove(iset, element).dict
          /\ icall' = [op |-> "pop", element |-> element, raised |-> FALSE,
                       before |-> iset]
    /\ UNCHANGED <<scanvars, group, vad>>

NextIndexSet ==
    \/ IndexSetAdd
    \/ IndexSetRemove
    \/ IndexSetDiscard
    \/ IndexSetPop

SpecIndexSet == InitIndexSet /\ [][NextIndexSet]_vars

-----------------------------------------------------------------------------
(* The construction of a scanner, sound or misconfigured.                  *)

\* The arguments of the constructors: the scanners of Configs, a
\* PointerScanner with and without pointers, and scanners whose checks have
\* no needles or a name that no check class has.
NewConfigs ==
    Configs \cup
    { [scanner |-> "PointerScanner", checks |-> <<>>, pointers |-> <<1, 256>>],
      [scanner |-> "PointerScanner", checks |-> <<>>, pointers |-> <<>>],
      Scanner("MultiStringScanner", << Check("MultiStringFinderCheck", <<>>) >>),
      Scanner("SignatureScanner", << Check("SignatureScannerCheck", <<>>) >>),
      Scanner("BaseScanner", << Check("MultiStringFinderCheck", <<>>) >>),
      Scanner("BaseScanner", << Check("StringCheck", << <<"A">> >>),
                                Check("SignatureScannerCheck", <<>>) >>),
      Scanner("BaseScanner", << Check("StringCheck", << <<"A">> >>),
                                Check("NoSuchCheck", << <<"A">> >>) >>) }

\* Before the constructor runs.
New ==
    /\ cfg \in NewConfigs
    /\ runs \in Layouts
    /\ mem \in [0..(MemSize - 1) -> Bytes]
    /\ pc = "new"
    /\ constraints = <<>>
    /\ group = NoGroup
    /\ Fresh

\* __init__: BaseScanner leaves self.constraints None, PointerScanner
\* encodes its pointers into self.checks, MultiStringScanner and
\* SignatureScanner construct self.check, which may raise.
Construct ==
    /\ pc = "new"
    /\ IF cfg.scanner \in BaseScannerClasses
       THEN /\ pc' = "idle"
            /\ cfg' = IF cfg.scanner = "PointerScanner"
                      THEN PointerScanner(cfg.pointers) ELSE cfg
            /\ UNCHANGED constraints
       ELSE IF CheckRaises(cfg.checks[1])
       THEN /\ pc' = "raised"
            /\ UNCHANGED <<cfg, constraints>>
       ELSE /\ pc' = "idle"
            /\ constraints' = <<NewCheck(cfg.checks[1].cls, cfg.checks[1].needles)>>
            /\ UNCHANGED cfg
    /\ UNCHANGED <<others, scans, runs, mem, offset, end, overlap,
                   last_reported_hit, chunk_end, chunk_offset, ri, start,
                   buffer_as, scan_offset, output, chunks, checkvals, skipvals,
                   skip_at, part_offsets>>

NextConstruct ==
    \/ Construct
    \/ Next

SpecConstruct == New /\ [][NextConstruct]_vars

-----------------------------------------------------------------------------
(* What the virtual address space holds, independently of the scanner.     *)

VirtMapped(v) == \E k \in 1..Len(runs) : runs[k][1] <= v /\ v < runs[k][1] + runs[k][3]

VirtByte(v) ==
    LET k == CHOOSE j \in 1..Len(runs) : runs[j][1] <= v /\ v < runs[j][1] + runs[j][3]
    IN  mem[runs[k][2] + (v - runs[k][1])]

\* The needle stands at virtual offset o, every byte of it mapped.
Occurs(needle, o) ==
    \A k \in 1..Len(needle) : VirtMapped(o + k - 1) /\ VirtByte(o + k - 1) = needle[k]

\* The needle at o lies inside the scanned window [offset, end).
InWindow(needle, o) == offset <= o /\ o + Len(needle) <= end

\* Some needle of the check stands at o, inside the window.
CheckOccurs(chk, o) ==
    \E k \in 1..Len(chk.needles) :
        Occurs(chk.needles[k], o) /\ InWindow(chk.needles[k], o)

Addresses == 0..(MemSize + 1)

YieldedOffsets == {output[i].offset : i \in 1..Len(output)}

TimesYielded(o) == Cardinality({i \in 1..Len(output) : output[i].offset = o})

HasCheck(cls) == \E k \in 1..Len(cfg.checks) : cfg.checks[k].cls = cls

\* Every constraint matched at the last check_addr.
AllHit ==
    /\ checkvals # <<>>
    /\ \A i \in 1..Len(checkvals) : checkvals[i].called /\ checkvals[i].hit

-----------------------------------------------------------------------------
(* C1: within one call of scan the yielded offsets are strictly            *)
(* increasing, so no offset is yielded twice, the offsets of the overlap   *)
(* that the next chunk scans again included.                               *)
C1_StrictlyIncreasing ==
    \A i \in 1..Len(output) : \A j \in 1..Len(output) :
        i < j => output[i].offset < output[j].offset

\* A hit found again in the overlap at the start of a later chunk, below
\* the last reported hit, and not yielded.
C1_Witness ==
    /\ pc = "skip"
    /\ AllHit
    /\ Len(chunks) >= 2
    /\ scan_offset < chunk_offset
    /\ scan_offset < last_reported_hit
    /\ scan_offset \in YieldedOffsets

(* C2: when scan has run to completion, every offset of the window that    *)
(* lies in an address range and at which all constraints match (the        *)
(* matching needle wholly inside the window, at most overlap + 1 bytes     *)
(* long) has been yielded; stated for the stateless checks and             *)
(* MultiStringFinderCheck, alone and combined.                             *)
C2_Coverage ==
    (pc = "done" /\ ~HasCheck("SignatureScannerCheck")) =>
        \A o \in Addresses :
            (\A k \in 1..Len(cfg.checks) : CheckOccurs(cfg.checks[k], o))
                => o \in YieldedOffsets

\* The offsets o that a chunk boundary b cuts a needle of length len at, or
\* that lie wholly in the last self_overlap bytes before b.
AtBoundary(o, len) ==
    \E c \in 1..Len(chunks) :
        /\ o < chunks[c].end
        /\ \/ o + len > chunks[c].end
           \/ o >= chunks[c].end - self_overlap

(* C3: a scanner with a single StringCheck whose needle is at most         *)
(* overlap + 1 bytes long yields an occurrence that starts in one chunk    *)
(* and ends in the next, or lies in the last `overlap` bytes of a chunk,   *)
(* exactly once, at its start offset.                                      *)
C3_BoundaryHitOnce ==
    (/\ pc = "done"
     /\ cfg.scanner = "BaseScanner"
     /\ Len(cfg.checks) = 1
     /\ cfg.checks[1].cls = "StringCheck"
     /\ Len(cfg.checks[1].needles[1]) <= self_overlap + 1) =>
        \A o \in Addresses :
            (/\ Occurs(cfg.checks[1].needles[1], o)
             /\ InWindow(cfg.checks[1].needles[1], o)
             /\ AtBoundary(o, Len(cfg.checks[1].needles[1])))
                => TimesYielded(o) = 1

\* One range longer than SCAN_BLOCKSIZE, the needle cut by the end of the
\* first chunk and yielded.
C3_Witness ==
    /\ pc = "done"
    /\ cfg.scanner = "BaseScanner"
    /\ Len(cfg.checks) = 1
    /\ cfg.checks[1].cls = "StringCheck"
    /\ Len(runs) = 1
    /\ Len(chunks) >= 2
    /\ \E o \in Addresses :
          /\ Occurs(cfg.checks[1].needles[1], o)
          /\ o < chunks[1].end
          /\ o + Len(cfg.checks[1].needles[1]) > chunks[1].end
          /\ TimesYielded(o) = 1

(* C4: bytes of two ranges separated by an unmapped gap are never stitched *)
(* together: wherever a hit is yielded, every byte of each needle that     *)
(* matched there is a mapped byte of virtual memory holding the needle.    *)
C4_NoStitching ==
    \A i \in 1..Len(output) : \A k \in 1..Len(output[i].matched) :
        output[i].matched[k].hit =>
            Occurs(output[i].matched[k].needle, output[i].offset)

\* Two ranges with a gap: the last byte before the gap and the first byte
\* behind it would make up the needle "AB", and no hit lies on the gap.
C4_Witness ==
    /\ pc = "done"
    /\ Len(runs) = 2
    /\ runs[1][1] + runs[1][3] < runs[2][1]
    /\ Len(chunks) = 2
    /\ HasCheck("StringCheck")
    /\ cfg.checks[1].needles[1] = <<"A", "B">>
    /\ VirtByte(runs[1][1] + runs[1][3] - 1) = "A"
    /\ VirtByte(runs[2][1]) = "B"
    /\ output # <<>>
    /\ \A i \in 1..Len(output) : output[i].offset # runs[1][1] + runs[1][3] - 1

\* The check c, asked on its own, matches at offset o of the buffer: what
\* its check method returns there (for MultiStringFinderCheck, with the
\* hits of this buffer not yet consumed; for SignatureScannerCheck, the
\* next part, at or behind the end of the part found before it).
MatchAlone(c, buf, o) ==
    CASE c.cls = "MultiStringFinderCheck" ->
            check_check(NewCheck(c.cls, c.needles), buf, o).val.hit
      [] c.cls = "SignatureScannerCheck" ->
            /\ check_check(c, buf, o).val.hit
            /\ \/ c.current_needle = 0
               \/ part_offsets = <<>>
               \/ o >= part_offsets[Len(part_offsets)] + Len(c.needles[c.current_needle])
      [] OTHER -> check_check(c, buf, o).val.hit

(* C5: skip soundness.  For every check c, every buffer and every offset   *)
(* abs_off at which the scanner calls c.skip, no offset behind abs_off     *)
(* and before abs_off + c.skip(buf, abs_off) is a match of c alone.  (The  *)
(* offset abs_off itself, which check has just been asked about, is left   *)
(* out: the claim as worded, with abs_off included, implies this.)         *)
C5_SkipSoundness ==
    (pc = "check" /\ skip_at >= 0) =>
        \A i \in 1..Len(constraints) :
            \A o \in (skip_at + 1)..(BufEnd(buffer_as) - 1) :
                o < skip_at + skipvals[i] => ~MatchAlone(constraints[i], buffer_as, o)

SignatureOnly ==
    /\ Len(cfg.checks) = 1
    /\ cfg.checks[1].cls = "SignatureScannerCheck"

(* C6: for a scanner whose only check is a SignatureScannerCheck, part i   *)
(* is matched only at or behind the end of the match of part i-1:          *)
(* offset_i >= offset_(i-1) + len(part i-1), over every sequence of        *)
(* buffers, the chunks that scan the overlap again included.               *)
C6_PartsInOrder ==
    SignatureOnly =>
        \A i \in 2..Len(part_offsets) :
            part_offsets[i] >= part_offsets[i - 1] + Len(cfg.checks[1].needles[i - 1])

Exhausted(c) ==
    c.cls = "SignatureScannerCheck" /\ c.current_needle >= Len(c.needles)

(* C7: once a SignatureScannerCheck has matched all its parts it stays     *)
(* exhausted: every later check returns no match (nothing more is          *)
(* yielded) and every later skip returns buf.end() - offset.               *)
C7_ExhaustedForGood ==
    [][\A i \in 1..Len(constraints) :
          Exhausted(constraints[i]) =>
              /\ Exhausted(constraints'[i])
              /\ (pc = "check" /\ pc' = "skip") =>
                     /\ checkvals'[i].called
                     /\ ~checkvals'[i].hit
                     /\ output' = output
              /\ (pc = "skip" /\ pc' = "check") =>
                     skipvals'[i] = BufEnd(buffer_as) - scan_offset]_vars

\* The exhausted check is asked at an offset where its last part stands
\* again, says no, and skip has then taken the cursor to the end.
C7_Witness ==
    /\ pc = "check"
    /\ skip_at >= 0
    /\ \E i \in 1..Len(constraints) :
          /\ Exhausted(constraints[i])
          /\ checkvals[i].called
          /\ ~checkvals[i].hit
          /\ StartsWith(buffer_as.data, constraints[i].needles[Len(constraints[i].needles)],
                        skip_at - buffer_as.base_offset)
          /\ skipvals[i] = BufEnd(buffer_as) - skip_at
          /\ skipvals[i] > 1

(* C8: in every reachable state of a SignatureScannerCheck with N parts,   *)
(* 0 <= current_needle <= N; no check or skip call decreases               *)
(* current_needle, skip never changes it, check raises it by at most 1.    *)
C8_CurrentNeedleMonotone ==
    /\ [](\A i \in 1..Len(constraints) :
             constraints[i].cls = "SignatureScannerCheck" =>
                 /\ 0 <= constraints[i].current_needle
                 /\ constraints[i].current_needle <= Len(constraints[i].needles))
    /\ [][\A i \in 1..Len(constraints) :
             (constraints[i].cls = "SignatureScannerCheck" /\ pc # "idle") =>
                 /\ constraints'[i].current_needle >= constraints[i].current_needle
                 /\ constraints'[i].current_needle <= constraints[i].current_needle + 1
                 /\ pc # "check" => constraints'[i].current_needle
                                        = constraints[i].current_needle]_vars

\* A part has been found, the check was then asked where the next part
\* does not stand, and skip has been called behind it.
C8_Witness ==
    /\ pc = "check"
    /\ skip_at >= 0
    /\ \E i \in 1..Len(constraints) :
          /\ constraints[i].cls = "SignatureScannerCheck"
          /\ constraints[i].current_needle = 1
          /\ checkvals[i].called
          /\ ~checkvals[i].hit

(* C9: after any sequence of check and skip calls the hit list of a        *)
(* MultiStringFinderCheck is sorted in descending order of relative        *)
(* offset: the hit with the smallest offset is the last element.           *)
C9_HitsDescending ==
    \A i \in 1..Len(constraints) :
        constraints[i].cls = "MultiStringFinderCheck" =>
            \A k \in 1..Len(constraints[i].hits) : \A m \in 1..Len(constraints[i].hits) :
                k < m => constraints[i].hits[k][2] >= constraints[i].hits[m][2]

\* Behind a check and a skip call the list still holds hits at three
\* different offsets, of needles of different lengths.
C9_Witness ==
    /\ pc = "check"
    /\ skip_at >= 0
    /\ \E i \in 1..Len(constraints) :
          /\ constraints[i].cls = "MultiStringFinderCheck"
          /\ Cardinality({constraints[i].hits[k][2] : k \in 1..Len(constraints[i].hits)}) >= 3
          /\ Cardinality({Len(constraints[i].hits[k][1]) : k \in 1..Len(constraints[i].hits)}) >= 2

\* The relative offsets of the buffer at which some needle stands.
NeedleOffsets(needles, data) ==
    {o \in 0..(Len(data) - 1) :
        \E k \in 1..Len(needles) : StartsWith(data, needles[k], o)}

(* C10: MultiStringScanner.scan over one buffer yields (offset, needle)    *)
(* pairs in ascending offset order, one pair for every offset at which     *)
(* some needle occurs, the needle of a pair being a needle that occurs at  *)
(* its offset; the hits depend on the set of needles, not on their order.  *)
C10_MultiStringScan ==
    (pc = "done" /\ cfg.scanner = "MultiStringScanner" /\ Len(chunks) = 1) =>
        /\ \A i \in 1..Len(output) : \A j \in 1..Len(output) :
              i < j => output[i].offset < output[j].offset
        /\ {output[i].offset - chunks[1].base_offset : i \in 1..Len(output)}
              = NeedleOffsets(cfg.checks[1].needles, chunks[1].data)
        /\ \A i \in 1..Len(output) :
              /\ \E k \in 1..Len(cfg.checks[1].needles) :
                    output[i].val = cfg.checks[1].needles[k]
              /\ StartsWith(chunks[1].data, output[i].val,
                            output[i].offset - chunks[1].base_offset)

\* One buffer in which two needles stand at the same offset and a needle
\* stands at a later offset: two pairs are yielded.
C10_Witness ==
    /\ pc = "done"
    /\ cfg.scanner = "MultiStringScanner"
    /\ Len(chunks) = 1
    /\ Len(output) >= 2
    /\ output[1].val = <<"A", "B">>
    /\ output[2].val = <<"A">>

-----------------------------------------------------------------------------
\* The value of a byte of the model.
ValueOf(b) == IF b = "A" THEN 0 ELSE 1

\* The address that AddressSize bytes spell, least significant byte first.
RECURSIVE DecodePointer(_)
DecodePointer(bytes) ==
    IF bytes = <<>> THEN 0
    ELSE ValueOf(Head(bytes)) + 256 * DecodePointer(Tail(bytes))

\* The offsets of the window where the memory holds one of the pointers.
PointerOffsets ==
    {o \in Addresses :
        /\ offset <= o /\ o + AddressSize <= end
        /\ \A k \in 0..(AddressSize - 1) : VirtMapped(o + k)
        /\ \E i \in 1..Len(cfg.pointers) :
               DecodePointer([k \in 1..AddressSize |-> VirtByte(o + k - 1)])
                   = cfg.pointers[i]}

(* C11: round trip.  A PointerScanner built from a pointer list, run to    *)
(* completion over memory, yields exactly the offsets where the memory     *)
(* holds the encoding of one of the pointers, each once.                   *)
C11_PointerRoundTrip ==
    pc = "done" =>
        /\ YieldedOffsets = PointerOffsets
        /\ \A o \in YieldedOffsets : TimesYielded(o) = 1

-----------------------------------------------------------------------------
\* The offsets that the group has yielded under the name n.
GroupHits(n) ==
    {group.output[i].offset :
        i \in {j \in 1..Len(group.output) : group.output[j].name = n}}

\* What the scanner named n yields from its own scan(start, maxlen) when
\* its checks are stateless (C16): the offsets of the window
\* [start, start + maxlen) at which each of its checks matches.
OwnScanHits(n) ==
    {o \in Addresses :
        \A k \in 1..Len(group.scanners[n].checks) :
            \E m \in 1..Len(group.scanners[n].checks[k].needles) :
                LET needle == group.scanners[n].checks[k].needles[m]
                IN  /\ Occurs(needle, o)
                    /\ group.start <= o
                    /\ o + Len(needle) <= group.start + group.maxlen}

\* Every scanner of the group has stateless checks only.
GroupStateless ==
    \A n \in 1..Len(group.scanners) :
        \A k \in 1..Len(group.scanners[n].checks) :
            group.scanners[n].checks[k].cls \in {"StringCheck", "RegexCheck"}

(* C12: for scanners with stateless checks, ScannerGroup.scan(start,       *)
(* maxlen) yields for each named scanner exactly the offsets the scanner   *)
(* yields from its own scan(start, maxlen), each (name, offset) pair       *)
(* exactly once.                                                           *)
C12_GroupEqualsOwnScan ==
    (group.pc = "done" /\ GroupStateless) =>
        \A n \in 1..Len(group.scanners) :
            /\ GroupHits(n) = OwnScanHits(n)
            /\ \A o \in GroupHits(n) :
                   Cardinality({j \in 1..Len(group.output) :
                                   /\ group.output[j].name = n
                                   /\ group.output[j].offset = o}) = 1

(* C13: in the output of ScannerGroup.scan the hits of each named scanner  *)
(* are strictly ascending by offset, across all windows.                   *)
C13_GroupPerScannerAscending ==
    group.pc # "none" =>
        \A i \in 1..Len(group.output) : \A j \in 1..Len(group.output) :
            (i < j /\ group.output[i].name = group.output[j].name)
                => group.output[i].offset < group.output[j].offset

-----------------------------------------------------------------------------
\* Every check of the scanner is stateless.
Stateless ==
    \A k \in 1..Len(cfg.checks) : cfg.checks[k].cls \in {"StringCheck", "RegexCheck"}

\* The offsets of the c-th buffer read at which every check matches.
HitsOfChunk(c) ==
    LET buf == assign_buffer(chunks[c].data, chunks[c].base_offset)
    IN  {o \in buf.base_offset..(BufEnd(buf) - 1) :
            \A k \in 1..Len(cfg.checks) :
                check_check(NewCheck(cfg.checks[k].cls, cfg.checks[k].needles),
                            buf, o).val.hit}

\* What holds once a read has raised: the generator has ended with the
\* error, every hit lies in a chunk that was read, the last chunk read was
\* scanned to its end and (stateless checks) all its hits were yielded.
AfterReadError ==
    /\ pc = "error"
    /\ \A i \in 1..Len(output) : \E c \in 1..Len(chunks) :
           /\ chunks[c].base_offset <= output[i].offset
           /\ output[i].offset < chunks[c].end
    /\ chunks # <<>> => scan_offset >= chunks[Len(chunks)].end
    /\ Stateless =>
           YieldedOffsets = UNION {HitsOfChunk(c) : c \in 1..Len(chunks)}

(* C14: when a physical read fails during scan, the error ends the scan:   *)
(* no hit is yielded and no chunk is read after the failure, and the hits  *)
(* yielded before it are the hits of the chunks read before the failing    *)
(* one.                                                                    *)
C14_ReadErrorEndsScan ==
    /\ [](failed => AfterReadError)
    /\ [][failed => UNCHANGED <<pc, output, chunks>>]_vars

\* The third read fails after hits were yielded from the chunks before.
C14_Witness ==
    /\ failed
    /\ Len(chunks) = 2
    /\ Len(output) >= 2

-----------------------------------------------------------------------------
\* The scanner was given a check without needles, no pointers, or the name
\* of a check that does not exist.
Misconfigured ==
    \/ cfg.scanner = "PointerScanner" /\ cfg.pointers = <<>>
    \/ \E k \in 1..Len(cfg.checks) :
          \/ cfg.checks[k].needles = <<>>
          \/ cfg.checks[k].cls = "NoSuchCheck"

(* C15: a misconfigured scanner fails fast: the error is raised at         *)
(* construction, before any scan is started, any chunk is read or any hit  *)
(* is yielded.                                                             *)
C15_FailFast ==
    Misconfigured =>
        /\ pc \in {"new", "raised"}
        /\ scans = 0
        /\ chunks = <<>> /\ output = <<>>

(* C15, amended: a misconfigured MultiStringScanner or SignatureScanner    *)
(* raises at construction; a misconfigured BaseScanner or PointerScanner   *)
(* is constructed without error and raises when its first scan is         *)
(* started, before any range is looked at, any chunk is read or any hit    *)
(* is yielded.                                                             *)
C15_FailsBeforeFirstRead ==
    Misconfigured =>
        /\ chunks = <<>> /\ output = <<>> /\ scans <= 1
        /\ IF cfg.scanner \in BaseScannerClasses
           THEN /\ pc \in {"new", "idle", "raised"}
                /\ pc = "raised" <=> scans = 1
           ELSE /\ pc \in {"new", "raised"}
                /\ scans = 0

\* A PointerScanner without pointers was constructed, and its first scan
\* raised.
C15_Witness ==
    /\ cfg.scanner = "PointerScanner"
    /\ cfg.pointers = <<>>
    /\ pc = "raised"
    /\ scans = 1

-----------------------------------------------------------------------------
\* The offsets of the window at which every check of the scanner matches:
\* a function of the address space and of the arguments of scan alone.
ExpectedHits ==
    {o \in Addresses : \A k \in 1..Len(cfg.checks) : CheckOccurs(cfg.checks[k], o)}

(* C16: for a scanner whose checks are all stateless, what a scan yields   *)
(* depends only on the address space, start and maxlen: a scan run to its  *)
(* end yields the matching offsets of its window in ascending order,       *)
(* whether or not earlier scans were run on the scanner, to their end or   *)
(* abandoned at a hit.                                                     *)
C16_RescanIndependent ==
    (pc = "done" /\ Stateless) =>
        /\ YieldedOffsets = ExpectedHits
        /\ \A i \in 1..Len(output) : \A j \in 1..Len(output) :
               i < j => output[i].offset < output[j].offset

\* A scan that ran to its end after an earlier scan was abandoned at a hit
\* further up, and that yielded hits.
C16_Witness ==
    /\ pc = "done"
    /\ Stateless
    /\ scans = 2
    /\ abandoned
    /\ Len(output) >= 2

-----------------------------------------------------------------------------
\* The element of the last call was not in the set when the call was made.
CalledOnAbsent == ~IndexSet_contains(icall.before, icall.element)

-----------------------------------------------------------------------------
(* C19: the guard on last_reported_hit only suppresses hits that were      *)
(* already reported: when all constraints match at the cursor and the hit  *)
(* is not yielded because the cursor is not above last_reported_hit, the   *)
(* cursor's offset was yielded earlier in the same scan.                   *)
C19_OnlySuppressesReported ==
    (pc = "skip" /\ AllHit /\ scan_offset <= last_reported_hit)
        => scan_offset \in YieldedOffsets

(* C20: MultiStringFinderCheck.skip is only called after                   *)
(* MultiStringFinderCheck.check was called on the same buffer at the same  *)
(* offset: after a skip at the cursor, every MultiStringFinderCheck of the *)
(* scanner has been called by the check_addr at that cursor.               *)
C20_CheckBeforeSkip ==
    (pc = "check" /\ skip_at >= 0) =>
        \A i \in 1..Len(constraints) :
            constraints[i].cls = "MultiStringFinderCheck" => checkvals[i].called

-----------------------------------------------------------------------------
\* The sequence a is the front of the sequence b.
IsPrefix(a, b) == Len(a) <= Len(b) /\ a = SubSeq(b, 1, Len(a))

(* C21: when MultiStringFinderCheck uses its cached hits for a buffer, the *)
(* hits were computed from the data of that buffer: two buffers read one   *)
(* after the other never have the same base_offset, and the hits a check   *)
(* holds under the base_offset of the buffer are hits of that buffer's     *)
(* data (those not yet popped: the front of the sorted list).              *)
C21_CacheOfThisBuffer ==
    HasCheck("MultiStringFinderCheck") =>
        /\ \A k \in 1..(Len(chunks) - 1) :
               chunks[k].base_offset # chunks[k + 1].base_offset
        /\ (pc \in {"check", "skip"}) =>
               \A i \in 1..Len(constraints) :
                   (/\ constraints[i].cls = "MultiStringFinderCheck"
                    /\ constraints[i].base_offset = buffer_as.base_offset)
                       => IsPrefix(constraints[i].hits,
                                   SortHits(findall(buffer_as.data,
                                                    constraints[i].needles)))

-----------------------------------------------------------------------------
\* The constraints that the last check_addr called are the first ones of
\* the list, up to and including the first that did not match.
CalledInOrder ==
    \A i \in 1..Len(checkvals) :
        checkvals[i].called <=>
            \A j \in 1..(i - 1) : checkvals[j].called /\ checkvals[j].hit

(* C22: BaseScanner.check_addr asks the constraints in list order and      *)
(* stops at the first that does not match: the constraints behind it are   *)
(* not called at that offset and keep their state, and the offset is       *)
(* yielded only if every constraint matched.                               *)
C22_CheckAddrStopsAtFirstMiss ==
    /\ []((cfg.scanner \in BaseScannerClasses /\ pc = "skip") => CalledInOrder)
    /\ [][(cfg.scanner \in BaseScannerClasses /\ pc = "check" /\ pc' = "skip") =>
            /\ \A i \in 1..Len(constraints) :
                   ~checkvals'[i].called => constraints'[i] = constraints[i]
            /\ output' # output => \A i \in 1..Len(constraints) :
                                       checkvals'[i].called /\ checkvals'[i].hit]_vars

\* StringCheck rejects the offset in front of a MultiStringFinderCheck that
\* holds the hits of the buffer, and is not called.
C22_Witness ==
    /\ pc = "skip"
    /\ Len(constraints) = 2
    /\ checkvals[1].called /\ ~checkvals[1].hit
    /\ ~checkvals[2].called
    /\ constraints[2].cls = "MultiStringFinderCheck"
    /\ constraints[2].hits # <<>>

-----------------------------------------------------------------------------
\* The checks that change their state when they match.
StatefulChecks == {"MultiStringFinderCheck", "SignatureScannerCheck"}

(* C23: no match is consumed without being reported: when a stateful       *)
(* check has matched at the cursor (SignatureScannerCheck moving on to its *)
(* next part, MultiStringFinderCheck popping the hit it returns), the      *)
(* offset of the cursor is among the offsets the scan has yielded.         *)
C23_ConsumedIsReported ==
    pc = "skip" =>
        \A i \in 1..Len(constraints) :
            (/\ constraints[i].cls \in StatefulChecks
             /\ checkvals[i].called
             /\ checkvals[i].hit)
                => scan_offset \in YieldedOffsets

-----------------------------------------------------------------------------
(* C24: every step of the inner loop of scan moves the cursor forward by   *)
(* at least one byte, for BaseScanner and for the scanners that override   *)
(* skip.                                                                   *)
C24_CursorAdvances ==
    [][(pc = "skip" /\ pc' = "check") => scan_offset' >= scan_offset + 1]_vars

-----------------------------------------------------------------------------
\* Pull is the step of scan, seen from the consumer: every step of the
\* generator is a Pull that moves the position, and where a Pull is
\* possible the generator has a step to take.
PullIsAStep == [][Next => (Pull /\ position' # position)]_vars
PullHasAStep == pc \in Running => ENABLED Next

(* C25: over finitely many ranges of finite length, a consumer that keeps  *)
(* pulling from scan(start, maxlen) reaches the end of the sequence: the   *)
(* scan terminates, for BaseScanner, MultiStringScanner and                *)
(* SignatureScanner.                                                       *)
C25_ScanTerminates == <>(pc = "done")

\* A MultiStringScanner has finished a scan of several chunks in which a
\* step left the cursor where it was.
C25_Witness ==
    /\ pc = "done"
    /\ cfg.scanner = "MultiStringScanner"
    /\ Len(chunks) >= 2
    /\ \E i \in 1..Len(output) : output[i].offset = skip_at

-----------------------------------------------------------------------------
(* C26: the cursor stays in the buffer: after every advance of the inner   *)
(* loop the cursor is at most buffer_as.end(), so that when a chunk is     *)
(* finished the next chunk starts where the previous one ended,            *)
(* chunk_offset = chunk_end, for every combination of checks.              *)
C26_CursorStaysInBuffer ==
    /\ [](pc = "check" => scan_offset <= BufEnd(buffer_as))
    /\ [][(pc = "check" /\ pc' = "chunk") => chunk_offset' = chunk_end]_vars

-----------------------------------------------------------------------------
\* The largest of 1 and the values of a sequence.
LargestSkip(vals) ==
    CHOOSE m \in {1} \cup {vals[i] : i \in 1..Len(vals)} :
        \A n \in {1} \cup {vals[i] : i \in 1..Len(vals)} : n <= m

(* C27: BaseScanner.skip returns the maximum of 1 and the skip values of   *)
(* all its constraints, each asked at the cursor, and the cursor advances  *)
(* by that value clamped to len(buffer_as): with several skippers, by the  *)
(* largest skip any of them offers.                                        *)
C27_AdvanceByLargestSkip ==
    [][(cfg.scanner \in BaseScannerClasses /\ pc = "skip" /\ pc' = "check") =>
        /\ \A i \in 1..Len(constraints) :
               skipvals'[i] = check_skip(constraints[i], buffer_as, scan_offset).skip
        /\ scan_offset' = scan_offset + Min(BufLen(buffer_as), LargestSkip(skipvals'))]_vars

\* The first of two skippers offered more than the second and more than one
\* byte, and the cursor went on by what the first offered.
C27_Witness ==
    /\ pc = "check"
    /\ Len(skipvals) = 2
    /\ skipvals[1] > skipvals[2]
    /\ skipvals[1] > 1
    /\ scan_offset = skip_at + skipvals[1]
    /\ scan_offset < BufEnd(buffer_as)

-----------------------------------------------------------------------------
\* The scanner has only checks that inherit ScannerCheck.skip.
NoSkipOptimisation ==
    \A i \in 1..Len(cfg.checks) : cfg.checks[i].cls = "RegexCheck"

\* With such a scanner the inner loop starts at the base of the buffer, goes
\* on one byte per step and ends at the end of the buffer: check_addr is
\* called at every offset of every buffer.
EveryOffsetChecked ==
    /\ (pc = "chunk" /\ pc' = "check") => scan_offset' = buffer_as'.base_offset
    /\ (pc = "skip" /\ pc' = "check") => scan_offset' = scan_offset + 1
    /\ (pc = "check" /\ pc' = "chunk") => scan_offset = BufEnd(buffer_as)

(* C28: a check that does not define its own skip has a skip of 1, and a   *)
(* scanner whose checks offer no skip optimisation advances exactly one    *)
(* byte per step, so that check is called at every offset of every buffer. *)
C28_DefaultSkipIsOne ==
    [][/\ (pc = "skip" /\ pc' = "check") =>
              \A i \in 1..Len(constraints) :
                  constraints[i].cls = "RegexCheck" => skipvals'[i] = 1
       /\ NoSkipOptimisation => EveryOffsetChecked]_vars

(* C28, amended: a check that does not define its own skip returns 0 from  *)
(* skip; the one byte is the floor of BaseScanner.skip, so that a          *)
(* BaseScanner whose checks offer no skip optimisation advances exactly    *)
(* one byte per step and calls check at every offset of every buffer.      *)
C28_DefaultSkipIsZeroFlooredToOne ==
    [][/\ (pc = "skip" /\ pc' = "check") =>
              \A i \in 1..Len(constraints) :
                  constraints[i].cls = "RegexCheck" => skipvals'[i] = 0
       /\ (NoSkipOptimisation /\ cfg.scanner \in BaseScannerClasses) => EveryOffsetChecked]_vars

\* A scanner with only a RegexCheck has walked a whole buffer of several
\* bytes, the check offering 0 at the last step.
C28_Witness ==
    /\ NoSkipOptimisation
    /\ pc = "check"
    /\ skipvals = <<0>>
    /\ scan_offset = skip_at + 1
    /\ scan_offset = BufEnd(buffer_as)
    /\ BufLen(buffer_as) >= SCAN_BLOCKSIZE

-----------------------------------------------------------------------------
\* The k-th buffer of the scan is the first one built for its address range.
FirstOfRange(k) == k = 1 \/ chunks[k - 1].run # chunks[k].run

(* C29: overlap is carried only between consecutive chunks of the same     *)
(* address range: the first buffer built for a range holds no bytes of the *)
(* previous range and its base_offset is max(range_start, scan_start),     *)
(* also when the range starts where the previous one ended.                *)
C29_OverlapOnlyWithinRange ==
    \A k \in 1..Len(chunks) :
        FirstOfRange(k) =>
            /\ chunks[k].base_offset = chunks[k].offset
            /\ chunks[k].base_offset = Max(runs[chunks[k].run][1], offset)

-----------------------------------------------------------------------------
(* C30: every buffer handed to the checks is a faithful view of virtual    *)
(* memory: data[i] is the byte the address space maps at base_offset + i,  *)
(* and base_offset + len(overlap) is the chunk's start offset, after any   *)
(* sequence of chunks, ranges and skips.                                   *)
C30_BufferIsFaithful ==
    \A k \in 1..Len(chunks) :
        LET c          == chunks[k]
            chunk_size == c.end - c.offset
            len_overlap == Len(c.data) - chunk_size
        IN  /\ len_overlap >= 0
            /\ c.base_offset + len_overlap = c.offset
            /\ \A i \in 0..(Len(c.data) - 1) :
                   /\ VirtMapped(c.base_offset + i)
                   /\ c.data[i + 1] = VirtByte(c.base_offset + i)

\* A buffer that begins with bytes of the range before: the two ranges are
\* adjacent in virtual memory and apart in physical memory.
C30_Witness ==
    \E k \in 2..Len(chunks) :
        /\ chunks[k - 1].run # chunks[k].run
        /\ chunks[k].base_offset < chunks[k].offset
        /\ \E i, j \in 1..Len(chunks[k].data) : chunks[k].data[i] # chunks[k].data[j]

-----------------------------------------------------------------------------
\* The cursor is an offset of the current buffer.
InBuffer == buffer_as.base_offset <= scan_offset /\ scan_offset < BufEnd(buffer_as)

(* C31: every call of check or skip made by scan passes an offset inside   *)
(* the current buffer, base_offset <= offset < end(), and within one       *)
(* buffer the offsets passed to a check never decrease.                    *)
C31_OffsetsInBufferAscending ==
    /\ []((pc = "check" /\ scan_offset < BufEnd(buffer_as)) => InBuffer)
    /\ [](pc = "skip" => InBuffer)
    /\ [][(pc = "skip" /\ pc' = "check") =>
              (buffer_as' = buffer_as /\ scan_offset' >= scan_offset)]_vars

\* The same offset of a buffer is passed to the check a second time, behind
\* the start of the buffer.
C31_Witness ==
    /\ pc = "skip"
    /\ skip_at = scan_offset
    /\ scan_offset > buffer_as.base_offset
    /\ checkvals[1].called

-----------------------------------------------------------------------------
\* The end of the interval [start, start + maxlen) that the call asked for;
\* a call without maxlen asks for everything from start on.
GivenEnd ==
    IF given_maxlen = None THEN offset + DefaultMaxLen ELSE offset + given_maxlen

(* C32: scan(start, maxlen), for every start >= 0 and maxlen >= 0, reads   *)
(* only bytes at virtual addresses in [start, start + maxlen) that belong  *)
(* to an address range, each read inside a single range, and yields only   *)
(* offsets in [start, start + maxlen).                                     *)
C32_ReadsAndYieldsInWindow ==
    /\ \A k \in 1..Len(chunks) :
           /\ offset <= chunks[k].offset
           /\ chunks[k].end <= GivenEnd
           /\ runs[chunks[k].run][1] <= chunks[k].offset
           /\ chunks[k].end <= runs[chunks[k].run][1] + runs[chunks[k].run][3]
    /\ \A i \in 1..Len(output) :
           offset <= output[i].offset /\ output[i].offset < GivenEnd

-----------------------------------------------------------------------------
(* C33: every buffer built by scan has at least 1 byte and at most         *)
(* SCAN_BLOCKSIZE + overlap bytes and is filled by one physical read of at *)
(* most SCAN_BLOCKSIZE bytes; the carried overlap never exceeds overlap    *)
(* bytes.                                                                  *)
C33_BufferBounded ==
    /\ Len(overlap) <= self_overlap
    /\ \A k \in 1..Len(chunks) :
           LET read_size == chunks[k].end - chunks[k].offset
           IN  /\ 1 <= read_size
               /\ read_size <= SCAN_BLOCKSIZE
               /\ Len(chunks[k].data) - read_size \in 0..self_overlap
               /\ 1 <= Len(chunks[k].data)
               /\ Len(chunks[k].data) <= SCAN_BLOCKSIZE + self_overlap

\* A buffer of the largest size, a whole block behind a whole overlap, was
\* built, and the overlap carried from it is as long as it may be.
C33_Witness ==
    /\ pc = "check"
    /\ Len(buffer_as.data) = SCAN_BLOCKSIZE + self_overlap
    /\ Len(overlap) = self_overlap
    /\ chunks[Len(chunks)].data = buffer_as.data

-----------------------------------------------------------------------------
\* A SignatureScannerCheck of the scanner has found all its parts.
SignatureExhausted == \E i \in 1..Len(constraints) : Exhausted(constraints[i])

(* C34: a BaseScanner builds its checks from its (name, args) list on the  *)
(* first call of scan only; later calls reuse the same checks with their   *)
(* state, so that a SignatureScannerCheck whose parts were all found in an *)
(* earlier scan yields no hit in any later scan of the scanner.            *)
C34_BuiltOnceStateKept ==
    /\ [][(pc = "idle" /\ pc' = "range") =>
              constraints' = IF scans = 0 THEN build_constraints(cfg.checks)
                             ELSE constraints]_vars
    /\ [][(pc # "idle" /\ pc' = "idle") => constraints' = constraints]_vars
    /\ [][SignatureExhausted => SignatureExhausted']_vars
    /\ [][(SignatureExhausted /\ pc' # "idle") => output' = output]_vars
    /\ []((scans >= 2 /\ SignatureExhausted /\ part_offsets = <<>>) => output = <<>>)

\* The second scan of a scanner has ended without a hit and without finding
\* a part, over a window in which the first part of the signature stands.
C34_Witness ==
    /\ scans = 2
    /\ pc = "done"
    /\ SignatureExhausted
    /\ part_offsets = <<>>
    /\ output = <<>>
    /\ chunks # <<>>
    /\ \E i \in 1..Len(constraints), o \in 0..(MemSize - 1) :
           /\ constraints[i].cls = "SignatureScannerCheck"
           /\ Occurs(constraints[i].needles[1], o)
           /\ InWindow(constraints[i].needles[1], o)

-----------------------------------------------------------------------------
\* The window of ScannerGroup.scan that the group is at, and where window k
\* begins and ends.
WindowNumber == (group.offset - group.start) \div SCAN_BLOCKSIZE
WindowStart(k) == group.start + k * SCAN_BLOCKSIZE
WindowEnd(k) ==
    WindowStart(k) + Min(SCAN_BLOCKSIZE + self_overlap, group.maxlen - k * SCAN_BLOCKSIZE)

(* C35: ScannerGroup.scan(start, maxlen) works window by window: window k  *)
(* is [start + k*SCAN_BLOCKSIZE, start + k*SCAN_BLOCKSIZE +                *)
(* min(SCAN_BLOCKSIZE + overlap, maxlen - k*SCAN_BLOCKSIZE)), no window    *)
(* reaches past start + maxlen, every hit of window k is yielded before    *)
(* any hit of window k+1, and within a window the hits of one scanner come *)
(* together, the scanners in a fixed order.                                *)
C35_WindowByWindow ==
    /\ (group.pc = "calling" /\ pc # "idle") =>
           /\ group.offset = WindowStart(WindowNumber)
           /\ offset = WindowStart(WindowNumber)
           /\ end = WindowEnd(WindowNumber)
           /\ offset < end
           /\ end <= group.start + group.maxlen
    /\ \A i \in 1..Len(group.output) :
           /\ WindowStart(group.output[i].window) <= group.output[i].offset
           /\ group.output[i].offset < WindowEnd(group.output[i].window)
    /\ \A i, j \in 1..Len(group.output) :
           i < j =>
               \/ group.output[i].window < group.output[j].window
               \/ /\ group.output[i].window = group.output[j].window
                  /\ group.output[i].name <= group.output[j].name

\* The group has finished a scan of two windows in which both scanners had
\* hits in both windows.
C35_Witness ==
    /\ group.pc = "done"
    /\ \A k \in 0..1 : \A n \in 1..2 :
           \E i \in 1..Len(group.output) :
               group.output[i].window = k /\ group.output[i].name = n

\* C35 for the calls that were given a length: a maxlen above 0.
WindowByWindowGivenLength == group.maxlen > 0 => C35_WindowByWindow

-----------------------------------------------------------------------------
\* The end of the region DiscontigScannerGroup.scan was asked to scan:
\* offset + maxlen, the highest address without a maxlen.
DiscontigEnd ==
    group.outer.offset
        + (IF group.outer.maxlen = None THEN MaxPointer ELSE group.outer.maxlen)

\* The offsets of S as an ascending sequence.
RECURSIVE AscendingOffsets(_)
AscendingOffsets(S) ==
    IF S = {} THEN <<>>
    ELSE LET least == CHOOSE o \in S : \A p \in S : o <= p
         IN  <<least>> \o AscendingOffsets(S \ {least})

\* What ScannerGroup.scan(range_start, length) yields when the checks are
\* stateless (C35, C16): window by window and scanner by scanner, the
\* offsets of the window at which each check of the scanner matches.
ScannerYield(r, k, n, window_start, window_end) ==
    LET hits == AscendingOffsets(
                    {o \in window_start..(window_end - 1) :
                        \A c \in 1..Len(group.scanners[n].checks) :
                            \E m \in 1..Len(group.scanners[n].checks[c].needles) :
                                LET needle == group.scanners[n].checks[c].needles[m]
                                IN  Occurs(needle, o) /\ o + Len(needle) <= window_end})
    IN  [i \in 1..Len(hits) |->
            [range |-> r, name |-> n, offset |-> hits[i], window |-> k]]

RECURSIVE WindowYieldFrom(_, _, _, _, _)
WindowYieldFrom(r, k, n, window_start, window_end) ==
    IF n > Len(group.scanners) THEN <<>>
    ELSE ScannerYield(r, k, n, window_start, window_end)
             \o WindowYieldFrom(r, k, n + 1, window_start, window_end)

RECURSIVE GroupYieldFrom(_, _, _, _)
GroupYieldFrom(r, k, range_start, length) ==
    IF length - k * SCAN_BLOCKSIZE <= 0 THEN <<>>
    ELSE WindowYieldFrom(r, k, 1, range_start + k * SCAN_BLOCKSIZE,
                         range_start + k * SCAN_BLOCKSIZE
                             + Min(SCAN_BLOCKSIZE + self_overlap,
                                   length - k * SCAN_BLOCKSIZE))
             \o GroupYieldFrom(r, k + 1, range_start, length)

\* The concatenation over the ranges from the r-th on.
RECURSIVE ConcatenationFrom(_, _)
ConcatenationFrom(r, ranges) ==
    IF r > Len(ranges) THEN <<>>
    ELSE GroupYieldFrom(r, 0, ranges[r][1], ranges[r][3])
             \o ConcatenationFrom(r + 1, ranges)

\* The yields of the group scan of one range, as they are yielded on.
YieldedOn(r) ==
    [i \in 1..Len(group.output) |->
        [range |-> r, name |-> group.output[i].name,
         offset |-> group.output[i].offset, window |-> group.output[i].window]]

(* C36: DiscontigScannerGroup.scan(offset, maxlen) asks for the address    *)
(* ranges of [offset, offset + maxlen), calls ScannerGroup.scan(start,     *)
(* length) for each of them in ascending order and yields what these calls *)
(* yield, in their order (for stateless checks: the hits of each window of *)
(* each range); no hit lies outside its range or outside                   *)
(* [offset, offset + maxlen).                                              *)
C36_DiscontigIsConcatenation ==
    /\ [](group.outer.pc # "idle" =>
            group.outer.ranges = get_address_ranges(group.outer.offset, DiscontigEnd))
    /\ []((group.outer.pc = "range" /\ group.pc # "idle") =>
            /\ group.start = group.outer.ranges[group.outer.ri][1]
            /\ group.maxlen = group.outer.ranges[group.outer.ri][3])
    /\ [][(group.outer.pc = "range" /\ group.pc = "done" /\ group'.pc = "idle") =>
            /\ group'.outer.output = group.outer.output \o YieldedOn(group.outer.ri)
            /\ group'.outer.ri = group.outer.ri + 1]_vars
    /\ [][group'.outer.output # group.outer.output => group.pc = "done"]_vars
    /\ [](\A i \in 1..Len(group.outer.output) :
            LET hit == group.outer.output[i]
                range == group.outer.ranges[hit.range]
            IN  /\ range[1] <= hit.offset
                /\ hit.offset < range[1] + range[3]
                /\ group.outer.offset <= hit.offset
                /\ hit.offset < DiscontigEnd)
    /\ []((group.outer.pc = "done" /\ GroupStateless) =>
            group.outer.output = ConcatenationFrom(1, group.outer.ranges))

\* The same for the calls that were given a length or none: maxlen is not 0.
DiscontigIsConcatenationGivenLength ==
    /\ [](group.outer.maxlen # 0 => 
            (group.outer.pc # "idle" =>
                group.outer.ranges = get_address_ranges(group.outer.offset, DiscontigEnd)))
    /\ [](group.outer.maxlen # 0 =>
            \A i \in 1..Len(group.outer.output) :
                LET hit == group.outer.output[i]
                    range == group.outer.ranges[hit.range]
                IN  /\ range[1] <= hit.offset
                    /\ hit.offset < range[1] + range[3]
                    /\ group.outer.offset <= hit.offset
                    /\ hit.offset < DiscontigEnd)
    /\ []((group.outer.pc = "range" /\ group.pc # "idle") =>
            /\ group.start = group.outer.ranges[group.outer.ri][1]
            /\ group.maxlen = group.outer.ranges[group.outer.ri][3])
    /\ [][(group.outer.pc = "range" /\ group.pc = "done" /\ group'.pc = "idle") =>
            /\ group'.outer.output = group.outer.output \o YieldedOn(group.outer.ri)
            /\ group'.outer.ri = group.outer.ri + 1]_vars
    /\ [][group'.outer.output # group.outer.output => group.pc = "done"]_vars
    /\ []((group.outer.pc = "done" /\ GroupStateless) =>
            group.outer.output = ConcatenationFrom(1, group.outer.ranges))

\* A scan over two ranges has ended with hits in both.
DiscontigTwoRanges ==
    /\ group.outer.pc = "done"
    /\ group.outer.maxlen # 0
    /\ GroupStateless
    /\ \A r \in 1..2 : \E i \in 1..Len(group.outer.output) :
           group.outer.output[i].range = r

-----------------------------------------------------------------------------
(* VADMapMixin.render for one task: the pages of GeneratePageMetatadata    *)
(* are coalesced into table rows.  The comment column of a row, a          *)
(* formatting of the values of the other columns, is left out.             *)

\* "length = 0x1000"
PageSize == 4096

\* The number of pages of the task's address space.
NumPages == 3

PageNumbers == 0..(NumPages - 1)

\* metadata["type"]; NoType is metadata without a type, for which
\* pop("type", None) is None.
Types == {"Valid", "Mapped"}
NoType == ""

\* metadata["offset"], None where metadata has no offset.
PageOffsets == {None, PageSize, 2 * PageSize}

Metadata == [type : Types \cup {NoType}, offset : PageOffsets]

\* self.verbosity: below 5 the Offset column is not shown.
Verbosities == {1, 5}

\* The pages that f describes from page number n on, by ascending vaddr.
RECURSIVE PagesFrom(_, _)
PagesFrom(n, f) ==
    IF n >= NumPages THEN <<>>
    ELSE (IF n \in DOMAIN f
          THEN << [vaddr |-> n * PageSize, metadata |-> f[n]] >>
          ELSE <<>>)
         \o PagesFrom(n + 1, f)

\* What GeneratePageMetatadata(task) can generate: (vaddr, metadata) for
\* some pages of the task, by ascending vaddr.
GeneratePageMetatadata ==
    {PagesFrom(0, f) : f \in UNION {[S -> Metadata] : S \in SUBSET PageNumbers}}

\* The plugin before render.
NewVADMap(pages, verbosity) ==
    [pc |-> "idle", pages |-> pages, verbosity |-> verbosity, i |-> 1,
     old_offset |-> 0, old_vaddr |-> 0, length |-> 0, old_metadata |-> [type |-> NoType],
     rows |-> <<>>]

InitVADMap ==
    /\ cfg = Scanner("BaseScanner", << Check("StringCheck", << <<"A", "B">> >>) >>)
    /\ runs = << <<0, 0, MemSize>> >>
    /\ mem = [a \in 0..(MemSize - 1) |-> "A"]
    /\ pc = "idle"
    /\ constraints = <<>>
    /\ group = NoGroup
    /\ offset = 0
    /\ end = 0
    /\ overlap = <<>>
    /\ last_reported_hit = -1
    /\ chunk_end = 0
    /\ chunk_offset = 0
    /\ ri = 1
    /\ start = 0
    /\ buffer_as = EmptyBuffer
    /\ scan_offset = 0
    /\ output = <<>>
    /\ chunks = <<>>
    /\ checkvals = <<>>
    /\ skipvals = <<>>
    /\ skip_at = -1
    /\ part_offsets = <<>>
    /\ scans = 0
    /\ given_maxlen = None
    /\ failed = FALSE
    /\ abandoned = FALSE
    /\ iset = EmptyIndexSet
    /\ icall = NoCall
    /\ vad \in {NewVADMap(pages, verbosity) :
                   pages \in GeneratePageMetatadata, verbosity \in Verbosities}

\* render reaches the loop: "old_offset = 0; old_vaddr = 0;
\* length = 0x1000; old_metadata = {}"
RenderTask ==
    /\ vad.pc = "idle"
    /\ vad' = [vad EXCEPT !.pc = "loop", !.old_offset = 0, !.old_vaddr = 0,
                          !.length = PageSize, !.old_metadata = [type |-> NoType]]
    /\ UNCHANGED <<scanvars, group, iset, icall>>

\* metadata once "offset = metadata.pop('offset', None)" has run
Popped(metadata) == [type |-> metadata.type]

\* The condition of "Coalesce similar rows".
Similar(v, vaddr, metadata) ==
    /\ \/ metadata.offset = None
       \/ v.old_offset = None
       \/ v.verbosity < 5
       \/ metadata.offset = v.old_offset + v.length
    /\ Popped(metadata) = v.old_metadata
    /\ vaddr = v.old_vaddr + v.length

\* "row = [old_vaddr, old_offset, length, type, comment]" and, below
\* verbosity 5, "row.pop(1)"
Row(v) ==
    IF v.verbosity < 5
    THEN <<v.old_vaddr, v.length, v.old_metadata.type>>
    ELSE <<v.old_vaddr, v.old_offset, v.length, v.old_metadata.type>>

\* The next page is similar to the run: "length += 0x1000; continue".
RenderCoalesce ==
    /\ vad.pc = "loop"
    /\ vad.i <= Len(vad.pages)
    /\ Similar(vad, vad.pages[vad.i].vaddr, vad.pages[vad.i].metadata)
    /\ vad' = [vad EXCEPT !.length = @ + PageSize, !.i = @ + 1]
    /\ UNCHANGED <<scanvars, group, iset, icall>>

\* The next page is not: the run before it is rendered if it has a type,
\* and the page begins a run.
RenderRow ==
    /\ vad.pc = "loop"
    /\ vad.i <= Len(vad.pages)
    /\ ~Similar(vad, vad.pages[vad.i].vaddr, vad.pages[vad.i].metadata)
    /\ vad' = [vad EXCEPT
                  !.rows = IF vad.old_metadata.type # NoType
                           THEN Append(@, Row(vad)) ELSE @,
                  !.old_metadata = Popped(vad.pages[vad.i].metadata),
                  !.old_vaddr = vad.pages[vad.i].vaddr,
                  !.old_offset = vad.pages[vad.i].metadata.offset,
                  !.length = PageSize,
                  !.i = @ + 1]
    /\ UNCHANGED <<scanvars, group, iset, icall>>

\* The generator is exhausted: the for loop, and render, end.
RenderEnd ==
    /\ vad.pc = "loop"
    /\ vad.i > Len(vad.pages)
    /\ vad' = [vad EXCEPT !.pc = "done"]
    /\ UNCHANGED <<scanvars, group, iset, icall>>

NextVADMap ==
    \/ RenderTask
    \/ RenderCoalesce
    \/ RenderRow
    \/ RenderEnd

SpecVADMap == InitVADMap /\ [][NextVADMap]_vars

-----------------------------------------------------------------------------
\* The columns of a row that every verbosity shows.
RowAddr(row) == row[1]
RowLength(row) == row[Len(row) - 1]
RowType(row) == row[Len(row)]

\* The pages of the input that carry a type.
TypedPages == {i \in 1..Len(vad.pages) : vad.pages[i].metadata.type # NoType}

\* The rows that cover the i-th page.
RowsCovering(i) ==
    {r \in 1..Len(vad.rows) :
        /\ RowAddr(vad.rows[r]) <= vad.pages[i].vaddr
        /\ vad.pages[i].vaddr < RowAddr(vad.rows[r]) + RowLength(vad.rows[r])}

\* Every row is a run of pages: each page-sized step of the row is a page
\* of the input with the type of the row, and the row begins where the
\* page before it, if any, was not similar.
RowsAreRuns ==
    \A r \in 1..Len(vad.rows) :
        LET row == vad.rows[r]
        IN  /\ RowType(row) # NoType
            /\ RowLength(row) >= PageSize
            /\ \A n \in PageNumbers :
                   (RowAddr(row) <= n * PageSize
                        /\ n * PageSize < RowAddr(row) + RowLength(row)) =>
                       \E i \in 1..Len(vad.pages) :
                           /\ vad.pages[i].vaddr = n * PageSize
                           /\ vad.pages[i].metadata.type = RowType(row)
            /\ \A q \in 1..Len(vad.rows) :
                   (q # r /\ RowAddr(vad.rows[q]) + RowLength(vad.rows[q]) = RowAddr(row)
                         /\ RowType(vad.rows[q]) = RowType(row)) =>
                       /\ vad.verbosity >= 5
                       /\ row[2] # vad.rows[q][2] + RowLength(vad.rows[q])

(* C37: render coalesces runs of consecutive pages with identical metadata *)
(* into one row, and when it ends every page that carries a type is        *)
(* covered by exactly one rendered row, the pages of the last run          *)
(* included.                                                               *)
C37_EveryTypedPageInOneRow ==
    /\ RowsAreRuns
    /\ vad.pc = "done" =>
           \A i \in TypedPages : Cardinality(RowsCovering(i)) = 1

\* What render does: the pages of the run that was open when the generator
\* ended (it begins at old_vaddr) are in no row, every typed page before
\* them is in exactly one.
AllButTheLastRun ==
    /\ RowsAreRuns
    /\ vad.pc = "done" =>
           \A i \in TypedPages :
               Cardinality(RowsCovering(i)) =
                   IF vad.pages[i].vaddr < vad.old_vaddr THEN 1 ELSE 0

\* render has ended with one row and an open run of two typed pages.
LastRunOfTwo ==
    /\ vad.pc = "done"
    /\ Len(vad.rows) = 1
    /\ vad.length = 2 * PageSize
    /\ vad.old_metadata.type # NoType
====
